---- MODULE Spec2Model ----
(***************************************************************************)
(* Kura, the block persistence layer of the node (iroha/src/kura.rs):      *)
(* the block store (one file per height), the in-memory tail `blocks`,    *)
(* the Merkle tree and the commit channel.                                 *)
(*                                                                         *)
(* Kura::store is an async fn; it is modelled one step per await point    *)
(* (File::create, write_all, block_sender.send, read_all of the recovery) *)
(* so that suspension, cancellation (the future is dropped at an await)   *)
(* and the consumer of the channel interleave where the code allows it.    *)
(*                                                                         *)
(* Further parts, each with a specification of its own: the instructions   *)
(* on the WorldStateView (iroha/src/domain.rs) under the transaction       *)
(* applier, the Signatures container (iroha_crypto/src/lib.rs), the keys   *)
(* of lib.rs (signing, and public keys as text), the queries on domains    *)
(* of domain.rs, and the Kura whose calls are never cancelled (liveness).  *)
(***************************************************************************)
EXTENDS Integers, Sequences, FiniteSets, TLC

\* ------------------------------------------------------------- bounds
\* Longest tail, and most blocks ever sent on the commit channel.
MaxBlocks == 2
\* Largest height an incoming block carries (0 = chain_first()).
MaxInHeight == 1
\* Capacity of the bounded commit channel.
ChannelCap == 1
\* Most store calls that are cancelled or meet an I/O error.
MaxFaults == 1

\* -------------------------------------------------------------- state
VARIABLES
    files,          \* block store directory: file name -> bytes
    blocks,         \* Kura.blocks, the in-memory tail
    merkle_tree,    \* Kura.merkle_tree (its root)
    channel,        \* CommittedBlocks sent and not yet received
    received,       \* CommittedBlocks the consumer has received, in order
    pc,             \* where the task that owns the Kura is
    block,          \* store's local `block`
    hash,           \* write's local `hash`, the Ok value of store
    result,         \* how the last call on the Kura ended
    initialised,    \* init has run on this Kura
    pre_chained,    \* history: every block stored into an empty tail had height 0
    at_call,        \* history: the tail and the number of blocks sent when store was called
    faults,         \* number of cancellations and I/O errors so far
    mode,           \* Kura.mode, fixed at construction
    wsv,            \* the WorldStateView the transaction applier owns
    working,        \* the WorldStateView the running transaction has built
    transaction,    \* the transaction being applied, or how the last one ended
    tx_log,         \* history: every execute call of that transaction
    steps,          \* number of execute calls so far
    signatures,     \* a Signatures container
    added,          \* history: the signatures added to it since the last clear
    last_op,        \* history: the last call that changed it
    verified_out,   \* what the last verified call on it returned
    crypto,         \* a caller's keys and payload, and what the calls on them returned
    answer          \* the last query on a WorldStateView and what it returned

isi_vars == <<wsv, working, transaction, tx_log, steps>>

sig_vars == <<signatures, added, last_op, verified_out>>

\* What the calls of pure functions left.
pure_vars == <<crypto, answer>>

\* State that no step of a Kura changes.
kura_fixed == <<mode, isi_vars, sig_vars, pure_vars>>

\* State that no instruction changes.
isi_fixed == <<files, blocks, merkle_tree, channel, received, pc, block, hash,
               result, initialised, pre_chained, at_call, faults, mode,
               sig_vars, pure_vars>>

\* State that no call on a Signatures container changes.
sig_fixed == <<files, blocks, merkle_tree, channel, received, pc, block, hash,
               result, initialised, pre_chained, at_call, faults, mode,
               isi_vars, pure_vars>>

\* State that no call on a key changes.
keys_fixed == <<files, blocks, merkle_tree, channel, received, pc, block,
                hash, result, initialised, pre_chained, at_call, faults, mode,
                isi_vars, sig_vars, answer>>

\* State that no query changes.
query_fixed == <<files, blocks, merkle_tree, channel, received, pc, block,
                 hash, result, initialised, pre_chained, at_call, faults,
                 mode, working, transaction, tx_log, steps, sig_vars, crypto>>

vars == <<files, blocks, merkle_tree, channel, received, pc, block, hash,
          result, initialised, pre_chained, at_call, faults, kura_fixed>>

\* ------------------------------------------------------------- hashes
\* Hashes are symbolic (collision-free): the hash of a header is the tuple
\* of its fields, a Merkle node the pair of its children.
ZeroHash == <<>>

\* A previous hash that is the hash of no block of the chain.
ForeignHash == <<0, 0, ZeroHash, 0>>

\* Block::hash: blake2b-256 over the encoded header only.
BlockHash(b) ==
    <<b.header.height, b.header.timestamp,
      b.header.previous_block_hash, b.header.merkle_root>>

\* ------------------------------------------------------------- blocks
Timestamps == {1}
Transactions == {1, 2}
SignatureSets == {1}

\* A ValidBlock as PendingBlock::new(..).chain(height, previous_hash).sign(..)
\* .validate(..) builds it; the Merkle root commits to the transactions.
ValidBlock(height, ts, previous_hash, tx, sg) ==
    [header |-> [height |-> height, timestamp |-> ts,
                 previous_block_hash |-> previous_hash, merkle_root |-> tx],
     transactions |-> tx, signatures |-> sg]

\* The ValidBlocks the consensus layer may hand to Kura::store: built with
\* chain_first() (height 0, zero hash), or with chain(h, p) for a height and
\* a previous hash that need not fit the tail.
IncomingBlocks ==
    { ValidBlock(0, ts, ZeroHash, tx, sg) :
        ts \in Timestamps, tx \in Transactions, sg \in SignatureSets }
    \cup
    { ValidBlock(h, ts, ForeignHash, tx, sg) :
        h \in 0..MaxInHeight, ts \in Timestamps, tx \in Transactions,
        sg \in SignatureSets }

\* The value of `block` when no store call has run.
NoBlock ==
    [header |-> [height |-> 0, timestamp |-> 0,
                 previous_block_hash |-> ZeroHash, merkle_root |-> 0],
     transactions |-> 0, signatures |-> 0]

\* ValidBlock::commit
Commit(b) ==
    [header |-> b.header, transactions |-> b.transactions,
     signatures |-> b.signatures, committed |-> TRUE]

\* Vec<u8>::from(&ValidBlock): header fields, then the two lists.
Encode(b) ==
    <<b.header.height, b.header.timestamp, b.header.previous_block_hash,
      b.header.merkle_root, b.transactions, b.signatures>>

\* ValidBlock::try_from(Vec<u8>) succeeds on a complete encoding only.
Decodes(bytes) == Len(bytes) = 6

Decode(bytes) ==
    [header |-> [height |-> bytes[1], timestamp |-> bytes[2],
                 previous_block_hash |-> bytes[3], merkle_root |-> bytes[4]],
     transactions |-> bytes[5], signatures |-> bytes[6]]

\* -------------------------------------------------------- Merkle tree
RECURSIVE MerkleRoot(_)
MerkleRoot(hashes) ==
    IF Len(hashes) = 0 THEN ZeroHash
    ELSE IF Len(hashes) = 1 THEN hashes[1]
    ELSE MerkleRoot([i \in 1..((Len(hashes) + 1) \div 2) |->
                        IF 2 * i <= Len(hashes)
                        THEN <<hashes[2 * i - 1], hashes[2 * i]>>
                        ELSE hashes[2 * i - 1]])

\* MerkleTree::build over the blocks in the order given.
MerkleBuild(bs) == MerkleRoot([i \in 1..Len(bs) |-> BlockHash(bs[i])])

\* MerkleTree::new
MerkleNew == MerkleBuild(<<>>)

\* -------------------------------------------------------- block store
\* format!("{}", block_height): the decimal digits of the height.
RECURSIVE GetBlockFilename(_)
GetBlockFilename(block_height) ==
    IF block_height < 10 THEN <<block_height>>
    ELSE GetBlockFilename(block_height \div 10) \o <<block_height % 10>>

\* BlockStore::get_block_path: the file name within the store's directory.
GetBlockPath(block_height) == GetBlockFilename(block_height)

\* Faulty variant of WritePath: the file is named by the height plus one.
WritePathNext(b) == GetBlockPath(b.header.height + 1)

\* BlockStore::write: the path the block is written to.
WritePath(b) == GetBlockPath(b.header.height)

\* The lengths at which a failing write_all may stop: nothing written, or
\* part of the encoding.
PartialWrites == {0, 3}

\* The directory with the file `name` holding `bytes` (created or truncated).
WithFile(fs, name, bytes) ==
    [n \in DOMAIN fs \cup {name} |-> IF n = name THEN bytes ELSE fs[n]]

\* Faulty variant of ReadOutcome: a file that does not decode is an Err.
ReadOutcomeLenient(fs, height) ==
    IF GetBlockPath(height) \notin DOMAIN fs THEN "err"
    ELSE IF Decodes(fs[GetBlockPath(height)]) THEN "ok"
    ELSE "err"

\* BlockStore::read: "ok" with the block, "err" when there is no file,
\* "panic" when the file does not decode.
ReadOutcome(fs, height) ==
    IF GetBlockPath(height) \notin DOMAIN fs THEN "err"
    ELSE IF Decodes(fs[GetBlockPath(height)]) THEN "ok"
    ELSE "panic"

\* BlockStore::read, the block of an "ok" outcome.
ReadBlock(fs, height) == Decode(fs[GetBlockPath(height)])

\* BlockStore::read_all: the loop from `height` on, `acc` read so far.
RECURSIVE ReadAllFrom(_, _, _)
ReadAllFrom(fs, height, acc) ==
    IF ReadOutcome(fs, height) = "ok"
    THEN ReadAllFrom(fs, height + 1, Append(acc, ReadBlock(fs, height)))
    ELSE [panic |-> ReadOutcome(fs, height) = "panic", blocks |-> acc]

\* Faulty variant of ReadAll: the blocks are returned newest first.
ReadAllNewestFirst(fs) ==
    LET all == ReadAllFrom(fs, 0, <<>>)
        n == Len(all.blocks)
    IN  [panic |-> all.panic,
         blocks |-> [i \in 1..n |-> all.blocks[n + 1 - i]]]

\* Faulty variant of ReadAll: the loop starts at height 1.
ReadAllFromOne(fs) == ReadAllFrom(fs, 1, <<>>)

\* BlockStore::read_all
ReadAll(fs) == ReadAllFrom(fs, 0, <<>>)

\* --------------------------------------------------------------- Kura
\* Faulty variant of Stamp: the previous hash is stamped, the height is the
\* one the block arrived with.
StampHashOnly(tail, b) ==
    IF tail # <<>>
    THEN [b EXCEPT !.header.previous_block_hash = BlockHash(tail[Len(tail)])]
    ELSE b

\* Faulty variant of Stamp: a block stored into an empty tail is stamped as
\* the first block of a chain.
StampAlways(tail, b) ==
    IF tail # <<>>
    THEN [b EXCEPT !.header.height = (Len(tail) - 1) + 1,
                   !.header.previous_block_hash = BlockHash(tail[Len(tail)])]
    ELSE [b EXCEPT !.header.height = 0,
                   !.header.previous_block_hash = ZeroHash]

\* Faulty variant of Stamp: the height is stamped, the previous hash is not.
StampHeightOnly(tail, b) ==
    IF tail # <<>>
    THEN [b EXCEPT !.header.height = (Len(tail) - 1) + 1]
    ELSE b

\* Kura::store, the stamping of the incoming block.
Stamp(tail, b) ==
    IF tail # <<>>
    THEN [b EXCEPT !.header.height = (Len(tail) - 1) + 1,
                   !.header.previous_block_hash = BlockHash(tail[Len(tail)])]
    ELSE b

Res(kind, h) == [kind |-> kind, hash |-> h]

AtCall(tail, sent) == [blocks |-> tail, sent |-> sent]

\* Kura work mode.
Modes == {"Strict", "Fast"}

\* A new Kura of mode `m` on an empty block store.
InitMode(m) ==
    /\ mode = m
    /\ files = <<>>
    /\ blocks = <<>>
    /\ merkle_tree = MerkleNew
    /\ channel = <<>>
    /\ received = <<>>
    /\ pc = "idle"
    /\ block = NoBlock
    /\ hash = ZeroHash
    /\ result = Res("new", ZeroHash)
    /\ initialised = FALSE
    /\ pre_chained = TRUE
    /\ at_call = AtCall(<<>>, 0)
    /\ faults = 0

\* Kura::new on the same directory with the same sender (a restart of the
\* node, also after a panic).
KuraNew ==
    /\ pc \in {"idle", "aborted"}
    /\ result.kind # "new"
    /\ blocks' = <<>>
    /\ merkle_tree' = MerkleNew
    /\ pc' = "idle"
    /\ result' = Res("new", ZeroHash)
    /\ initialised' = FALSE
    /\ block' = NoBlock
    /\ hash' = ZeroHash
    /\ at_call' = AtCall(<<>>, 0)
    /\ UNCHANGED <<files, channel, received, pre_chained, faults>>
    /\ UNCHANGED kura_fixed

\* Faulty variant of KuraInit: the blocks read are appended to the tail.
KuraInitAppend ==
    /\ pc = "idle"
    /\ LET all == ReadAll(files) IN
       IF all.panic
       THEN /\ pc' = "aborted"
            /\ result' = Res("init_panic", ZeroHash)
            /\ UNCHANGED <<blocks, merkle_tree, initialised>>
       ELSE /\ merkle_tree' = MerkleBuild(all.blocks)
            /\ blocks' = blocks \o all.blocks
            /\ pc' = "idle"
            /\ result' = Res("init_ok", ZeroHash)
            /\ initialised' = TRUE
    /\ block' = NoBlock
    /\ hash' = ZeroHash
    /\ at_call' = AtCall(<<>>, 0)
    /\ UNCHANGED <<files, channel, received, pre_chained, faults>>
    /\ UNCHANGED kura_fixed

\* Kura::init
KuraInit ==
    /\ pc = "idle"
    /\ LET all == ReadAll(files) IN
       IF all.panic
       THEN /\ pc' = "aborted"
            /\ result' = Res("init_panic", ZeroHash)
            /\ UNCHANGED <<blocks, merkle_tree, initialised>>
       ELSE /\ merkle_tree' = MerkleBuild(all.blocks)
            /\ blocks' = all.blocks
            /\ pc' = "idle"
            /\ result' = Res("init_ok", ZeroHash)
            /\ initialised' = TRUE
    /\ block' = NoBlock
    /\ hash' = ZeroHash
    /\ at_call' = AtCall(<<>>, 0)
    /\ UNCHANGED <<files, channel, received, pre_chained, faults>>
    /\ UNCHANGED kura_fixed

\* Kura::store up to the first await: the stamping.
StoreBegin(b) ==
    /\ pc = "idle"
    /\ initialised
    /\ Len(blocks) < MaxBlocks
    /\ Len(received) + Len(channel) < MaxBlocks
    /\ block' = Stamp(blocks, b)
    /\ pre_chained' = (pre_chained /\ (blocks # <<>> \/ b.header.height = 0))
    /\ pc' = "create"
    /\ result' = Res("running", ZeroHash)
    /\ at_call' = AtCall(blocks, Len(received) + Len(channel))
    /\ hash' = ZeroHash
    /\ UNCHANGED <<files, blocks, merkle_tree, channel, received, initialised, faults>>
    /\ UNCHANGED kura_fixed

\* BlockStore::write: File::create succeeds, the file exists and is empty.
FileCreateOk ==
    /\ pc = "create"
    /\ files' = WithFile(files, WritePath(block), <<>>)
    /\ hash' = BlockHash(block)
    /\ pc' = "write_all"
    /\ UNCHANGED <<blocks, merkle_tree, channel, received, block, result,
                   initialised, pre_chained, at_call, faults>>
    /\ UNCHANGED kura_fixed

\* BlockStore::write: File::create fails.
FileCreateErr ==
    /\ pc = "create"
    /\ faults < MaxFaults
    /\ faults' = faults + 1
    /\ pc' = "recover"
    /\ UNCHANGED <<files, blocks, merkle_tree, channel, received, block, hash,
                   result, initialised, pre_chained, at_call>>
    /\ UNCHANGED kura_fixed

\* BlockStore::write: write_all succeeds.
WriteAllOk ==
    /\ pc = "write_all"
    /\ files' = WithFile(files, WritePath(block), Encode(block))
    /\ pc' = "send"
    /\ UNCHANGED <<blocks, merkle_tree, channel, received, block, hash, result,
                   initialised, pre_chained, at_call, faults>>
    /\ UNCHANGED kura_fixed

\* Faulty variant of WriteAllErr: the error of write_all is ignored.
WriteAllErrIgnored(k) ==
    /\ pc = "write_all"
    /\ faults < MaxFaults
    /\ faults' = faults + 1
    /\ files' = WithFile(files, WritePath(block),
                         SubSeq(Encode(block), 1, k))
    /\ pc' = "send"
    /\ UNCHANGED <<blocks, merkle_tree, channel, received, block, hash, result,
                   initialised, pre_chained, at_call>>
    /\ UNCHANGED kura_fixed

\* BlockStore::write: write_all fails after `k` bytes.
WriteAllErr(k) ==
    /\ pc = "write_all"
    /\ faults < MaxFaults
    /\ faults' = faults + 1
    /\ files' = WithFile(files, WritePath(block),
                         SubSeq(Encode(block), 1, k))
    /\ pc' = "recover"
    /\ UNCHANGED <<blocks, merkle_tree, channel, received, block, hash, result,
                   initialised, pre_chained, at_call>>
    /\ UNCHANGED kura_fixed

\* Faulty variant of Send: the send completes whether or not the channel
\* has room.
SendUnbounded ==
    /\ pc = "send"
    /\ channel' = Append(channel, Commit(block))
    /\ pc' = "push"
    /\ UNCHANGED <<files, blocks, merkle_tree, received, block, hash, result,
                   initialised, pre_chained, at_call, faults>>
    /\ UNCHANGED kura_fixed

\* Faulty variant of Send: the block is sent as it is, without commit().
SendValid ==
    /\ pc = "send"
    /\ Len(channel) < ChannelCap
    /\ channel' = Append(channel, block)
    /\ pc' = "push"
    /\ UNCHANGED <<files, blocks, merkle_tree, received, block, hash, result,
                   initialised, pre_chained, at_call, faults>>
    /\ UNCHANGED kura_fixed

\* Kura::store, Ok arm: block_sender.send completes (the channel has room).
Send ==
    /\ pc = "send"
    /\ Len(channel) < ChannelCap
    /\ channel' = Append(channel, Commit(block))
    /\ pc' = "push"
    /\ UNCHANGED <<files, blocks, merkle_tree, received, block, hash, result,
                   initialised, pre_chained, at_call, faults>>
    /\ UNCHANGED kura_fixed

\* Kura::store, Ok arm: self.blocks.push(block); Ok(hash).
Push ==
    /\ pc = "push"
    /\ blocks' = Append(blocks, block)
    /\ pc' = "idle"
    /\ result' = Res("ok", hash)
    /\ UNCHANGED <<files, merkle_tree, channel, received, block, hash,
                   initialised, pre_chained, at_call, faults>>
    /\ UNCHANGED kura_fixed

\* Kura::store, Err arm: read_all, rebuild the tree, Err(error).
Recover ==
    /\ pc = "recover"
    /\ LET all == ReadAll(files) IN
       IF all.panic
       THEN /\ pc' = "aborted"
            /\ result' = Res("store_panic", ZeroHash)
            /\ UNCHANGED merkle_tree
       ELSE /\ merkle_tree' = MerkleBuild(all.blocks)
            /\ pc' = "idle"
            /\ result' = Res("err", ZeroHash)
    /\ UNCHANGED <<files, blocks, channel, received, block, hash, initialised,
                   pre_chained, at_call, faults>>
    /\ UNCHANGED kura_fixed

\* The task running store is cancelled at an await: the future is dropped.
Cancel ==
    /\ pc \in {"create", "write_all", "send", "recover"}
    /\ faults < MaxFaults \/ pc = "recover"
    /\ faults' = IF pc = "recover" THEN faults ELSE faults + 1
    /\ pc' = "idle"
    /\ result' = Res("cancelled", ZeroHash)
    /\ UNCHANGED <<files, blocks, merkle_tree, channel, received, block, hash,
                   initialised, pre_chained, at_call>>
    /\ UNCHANGED kura_fixed

\* The consumer of the commit channel receives the oldest block.
Receive ==
    /\ channel # <<>>
    /\ received' = Append(received, Head(channel))
    /\ channel' = Tail(channel)
    /\ UNCHANGED <<files, blocks, merkle_tree, pc, block, hash, result,
                   initialised, pre_chained, at_call, faults>>
    /\ UNCHANGED kura_fixed

Next ==
    \/ KuraNew
    \/ KuraInit
    \/ \E b \in IncomingBlocks : StoreBegin(b)
    \/ FileCreateOk
    \/ FileCreateErr
    \/ WriteAllOk
    \/ \E k \in PartialWrites : WriteAllErr(k)
    \/ Send
    \/ Push
    \/ Recover
    \/ Cancel
    \/ Receive

\* ================================================================ ISI
\* Instructions on the WorldStateView (iroha/src/domain.rs) and the
\* transaction applier that executes them.

\* ------------------------------------------------------------- bounds
\* Most execute calls made in one behaviour.
MaxSteps == 3
\* Largest quantity an instruction carries, and an asset holds.
MaxQuantity == 2

\* ----------------------------------------------------------- entities
DomainNames == {"d1", "d2"}

AccountId(name, domain_name) == [name |-> name, domain_name |-> domain_name]

\* Account::new(name, domain_name, public_key): no assets yet.
Account(name, domain_name, public_key) ==
    [id |-> AccountId(name, domain_name),
     signatories |-> {public_key},
     assets |-> <<>>]

AssetDefinitionId(name, domain_name) ==
    [name |-> name, domain_name |-> domain_name]

AssetDefinition(id) == [id |-> id]

AssetId(definition_id, account_id) ==
    [definition_id |-> definition_id, account_id |-> account_id]

Asset(id, quantity) == [id |-> id, quantity |-> quantity]

\* Domain::new(name)
Domain(name) == [name |-> name, accounts |-> <<>>, asset_definitions |-> <<>>]

\* The accounts, definitions and authorities the instructions carry.
Account1Id == AccountId("a1", "d1")
Account2Id == AccountId("a2", "d1")
XorId == AssetDefinitionId("xor", "d1")
UsdId == AssetDefinitionId("usd", "d1")

NewAccounts ==
    {Account("a1", "d1", 1), Account("a1", "d1", 2),
     Account("a2", "d1", 1), Account("a1", "d2", 1)}

NewAssetDefinitions == {AssetDefinition(XorId), AssetDefinition(UsdId)}

Root == AccountId("root", "global")
Guest == AccountId("guest", "global")
Authorities == {Root, Guest}

Permissions ==
    {"CanAddDomain", "CanRegisterAccount", "CanRegisterAssetDefinition",
     "CanMintAsset", "CanTransferAsset"}

\* ------------------------------------------------------- world state view
\* The WSV of a new peer: no domain, every permission granted to Root.
EmptyWsv ==
    [domains |-> <<>>,
     permissions |-> {<<Root, p>> : p \in Permissions}]

\* BTreeMap::insert: the value under `key` is `value`, also when the key
\* was present.
Insert(map, key, value) ==
    [k \in (DOMAIN map) \cup {key} |-> IF k = key THEN value ELSE map[k]]

\* BTreeMap::contains_key
ContainsKey(map, key) == key \in DOMAIN map

\* WorldStateView::domain(&name) is Some
HasDomain(world_state_view, name) ==
    ContainsKey(world_state_view.domains, name)

\* The account `id` looked up through the domain its id names.
HasAccount(world_state_view, id) ==
    /\ HasDomain(world_state_view, id.domain_name)
    /\ ContainsKey(world_state_view.domains[id.domain_name].accounts, id)

AccountOf(world_state_view, id) ==
    world_state_view.domains[id.domain_name].accounts[id]

\* ------------------------------------------------------------- results
\* Result<Output, String>: Ok carries the output, Err the message.
Ok(kind, world_state_view) ==
    [ok |-> TRUE, msg |-> <<>>,
     output |-> <<[kind |-> kind, world_state_view |-> world_state_view]>>]

Err(msg) == [ok |-> FALSE, msg |-> msg, output |-> <<>>]

\* What a call of execute(authority, &wsv) leaves: the WSV behind the
\* reference it was given, and its return value.
Call(caller, ret) == [caller |-> caller, ret |-> ret]

FailedToFindDomain == <<"Failed to find domain.">>

AlreadyContains == "Domain already contains an account with an Id: "

\* format!("Domain already contains an account with an Id: {:?}", &account.id)
AlreadyContainsAccount(id) == <<AlreadyContains, id>>

\* PermissionInstruction::<permission>(authority, None).execute(wsv)
PermissionExecute(permission, authority, world_state_view) ==
    IF <<authority, permission>> \in world_state_view.permissions
    THEN Ok("Permission", world_state_view)
    ELSE Err(<<"Error: Permission not found.", permission>>)

\* -------------------------------------------------------- instructions
\* Domain::register_account / Register::new
Register(object, destination_id) ==
    [object |-> object, destination_id |-> destination_id]

\* Faulty variant of RegisterAccountExecute: the destination domain of the
\* returned WSV is a new domain that holds the account only.
RegisterAccountIntoNewDomain(self, authority, world_state_view) ==
    LET permission ==
            PermissionExecute("CanRegisterAccount", authority, world_state_view)
        clone == world_state_view
        account == self.object
    IN  IF ~permission.ok
        THEN Call(world_state_view, Err(permission.msg))
        ELSE IF ~HasDomain(clone, self.destination_id)
        THEN Call(world_state_view, Err(FailedToFindDomain))
        ELSE IF ContainsKey(clone.domains[self.destination_id].accounts,
                            account.id)
        THEN Call(world_state_view, Err(AlreadyContainsAccount(account.id)))
        ELSE Call(world_state_view,
                  Ok("RegisterAccount",
                     [clone EXCEPT !.domains[self.destination_id] =
                         [Domain(self.destination_id) EXCEPT
                             !.accounts = Insert(@, account.id, account)]]))

\* Faulty variant of RegisterAccountExecute: the account is inserted in
\* place, into the WSV the caller passed, before the duplicate check.
RegisterAccountInPlace(self, authority, world_state_view) ==
    LET permission ==
            PermissionExecute("CanRegisterAccount", authority, world_state_view)
        account == self.object
    IN  IF ~permission.ok
        THEN Call(world_state_view, Err(permission.msg))
        ELSE IF ~HasDomain(world_state_view, self.destination_id)
        THEN Call(world_state_view, Err(FailedToFindDomain))
        ELSE LET inserted ==
                     [world_state_view EXCEPT
                         !.domains[self.destination_id].accounts =
                             Insert(@, account.id, account)]
             IN  IF ContainsKey(
                        world_state_view.domains[self.destination_id].accounts,
                        account.id)
                 THEN Call(inserted, Err(AlreadyContainsAccount(account.id)))
                 ELSE Call(inserted, Ok("RegisterAccount", inserted))

\* Faulty variant of RegisterAccountExecute: the permission is checked
\* after the domain was looked up in the clone.
RegisterAccountPermissionLate(self, authority, world_state_view) ==
    LET permission ==
            PermissionExecute("CanRegisterAccount", authority, world_state_view)
        clone == world_state_view
        account == self.object
    IN  IF ~HasDomain(clone, self.destination_id)
        THEN Call(world_state_view, Err(FailedToFindDomain))
        ELSE IF ~permission.ok
        THEN Call(world_state_view, Err(permission.msg))
        ELSE IF ContainsKey(clone.domains[self.destination_id].accounts,
                            account.id)
        THEN Call(world_state_view, Err(AlreadyContainsAccount(account.id)))
        ELSE Call(world_state_view,
                  Ok("RegisterAccount",
                     [clone EXCEPT !.domains[self.destination_id].accounts =
                                       Insert(@, account.id, account)]))

\* Faulty variant of RegisterAccountExecute: the account is inserted with
\* no look at whether its id is present.
RegisterAccountOverwrite(self, authority, world_state_view) ==
    LET permission ==
            PermissionExecute("CanRegisterAccount", authority, world_state_view)
        clone == world_state_view
        account == self.object
    IN  IF ~permission.ok
        THEN Call(world_state_view, Err(permission.msg))
        ELSE IF ~HasDomain(clone, self.destination_id)
        THEN Call(world_state_view, Err(FailedToFindDomain))
        ELSE Call(world_state_view,
                  Ok("RegisterAccount",
                     [clone EXCEPT !.domains[self.destination_id].accounts =
                                       Insert(@, account.id, account)]))

\* Register<Domain, Account>::execute
RegisterAccountExecute(self, authority, world_state_view) ==
    LET permission ==
            PermissionExecute("CanRegisterAccount", authority, world_state_view)
        clone == world_state_view
        account == self.object
    IN  IF ~permission.ok
        THEN Call(world_state_view, Err(permission.msg))
        ELSE IF ~HasDomain(clone, self.destination_id)
        THEN Call(world_state_view, Err(FailedToFindDomain))
        ELSE IF ContainsKey(clone.domains[self.destination_id].accounts,
                            account.id)
        THEN Call(world_state_view, Err(AlreadyContainsAccount(account.id)))
        ELSE Call(world_state_view,
                  Ok("RegisterAccount",
                     [clone EXCEPT !.domains[self.destination_id].accounts =
                                       Insert(@, account.id, account)]))

\* Faulty variant of RegisterAssetDefinitionExecute: the definition becomes
\* the only one of its domain.
RegisterAssetDefinitionAlone(self, authority, world_state_view) ==
    LET permission ==
            PermissionExecute("CanRegisterAssetDefinition", authority,
                              world_state_view)
        clone == world_state_view
        asset == self.object
    IN  IF ~permission.ok
        THEN Call(world_state_view, Err(permission.msg))
        ELSE IF ~HasDomain(clone, self.destination_id)
        THEN Call(world_state_view, Err(FailedToFindDomain))
        ELSE Call(world_state_view,
                  Ok("RegisterAsset",
                     [clone EXCEPT
                         !.domains[self.destination_id].asset_definitions =
                             Insert(<<>>, asset.id, asset)]))

\* Register<Domain, AssetDefinition>::execute: insert, with no look at
\* whether the id is present.
RegisterAssetDefinitionExecute(self, authority, world_state_view) ==
    LET permission ==
            PermissionExecute("CanRegisterAssetDefinition", authority,
                              world_state_view)
        clone == world_state_view
        asset == self.object
    IN  IF ~permission.ok
        THEN Call(world_state_view, Err(permission.msg))
        ELSE IF ~HasDomain(clone, self.destination_id)
        THEN Call(world_state_view, Err(FailedToFindDomain))
        ELSE Call(world_state_view,
                  Ok("RegisterAsset",
                     [clone EXCEPT
                         !.domains[self.destination_id].asset_definitions =
                             Insert(@, asset.id, asset)]))

\* Add<Peer, Domain>::execute: insert the domain by name; error if present.
AddDomainExecute(self, authority, world_state_view) ==
    LET permission ==
            PermissionExecute("CanAddDomain", authority, world_state_view)
        clone == world_state_view
        domain == self.object
    IN  IF ~permission.ok
        THEN Call(world_state_view, Err(permission.msg))
        ELSE IF ContainsKey(clone.domains, domain.name)
        THEN Call(world_state_view, Err(<<"Domain already exists.">>))
        ELSE Call(world_state_view,
                  Ok("AddDomain",
                     [clone EXCEPT !.domains =
                                       Insert(@, domain.name, domain)]))

\* The asset `id` of its account, created with quantity 0 when absent.
AssetOrNew(account, id) ==
    IF ContainsKey(account.assets, id) THEN account.assets[id] ELSE Asset(id, 0)

\* The WSV with `change` added to the quantity of asset `id`.
WithQuantity(world_state_view, id, change) ==
    LET account == AccountOf(world_state_view, id.account_id)
        asset == AssetOrNew(account, id)
    IN  [world_state_view EXCEPT
            !.domains[id.account_id.domain_name].accounts[id.account_id].assets =
                Insert(@, id, Asset(id, asset.quantity + change))]

\* Mint<AssetId, u32>::execute: create-or-increment the asset.
MintExecute(self, authority, world_state_view) ==
    LET permission ==
            PermissionExecute("CanMintAsset", authority, world_state_view)
        clone == world_state_view
    IN  IF ~permission.ok
        THEN Call(world_state_view, Err(permission.msg))
        ELSE IF ~HasAccount(clone, self.destination_id.account_id)
        THEN Call(world_state_view, Err(<<"Failed to find account.">>))
        ELSE Call(world_state_view,
                  Ok("Mint",
                     WithQuantity(clone, self.destination_id, self.object)))

\* Transfer { source_id, object, destination_id }
Transfer(source_id, object, destination_id) ==
    [source_id |-> source_id, object |-> object,
     destination_id |-> destination_id]

\* Faulty variant of TransferExecute: the destination is credited, the
\* source is not debited.
TransferCreditOnly(self, authority, world_state_view) ==
    LET permission ==
            PermissionExecute("CanTransferAsset", authority, world_state_view)
        clone == world_state_view
        definition_id == self.object.id.definition_id
        source == AssetId(definition_id, self.source_id)
        destination == AssetId(definition_id, self.destination_id)
    IN  IF ~permission.ok
        THEN Call(world_state_view, Err(permission.msg))
        ELSE IF ~HasAccount(clone, self.source_id)
        THEN Call(world_state_view, Err(<<"Failed to find account.">>))
        ELSE IF ~ContainsKey(AccountOf(clone, self.source_id).assets, source)
        THEN Call(world_state_view, Err(<<"Failed to find asset.">>))
        ELSE IF AccountOf(clone, self.source_id).assets[source].quantity
                    < self.object.quantity
        THEN Call(world_state_view, Err(<<"Not enough assets.">>))
        ELSE IF ~HasAccount(clone, self.destination_id)
        THEN Call(world_state_view, Err(<<"Failed to find account.">>))
        ELSE Call(world_state_view,
                  Ok("Transfer",
                     WithQuantity(clone, destination, self.object.quantity)))

\* Transfer<AccountId, Asset, AccountId>::execute: decrement the source,
\* increment the destination; fails on underflow.
TransferExecute(self, authority, world_state_view) ==
    LET permission ==
            PermissionExecute("CanTransferAsset", authority, world_state_view)
        clone == world_state_view
        definition_id == self.object.id.definition_id
        source == AssetId(definition_id, self.source_id)
        destination == AssetId(definition_id, self.destination_id)
    IN  IF ~permission.ok
        THEN Call(world_state_view, Err(permission.msg))
        ELSE IF ~HasAccount(clone, self.source_id)
        THEN Call(world_state_view, Err(<<"Failed to find account.">>))
        ELSE IF ~ContainsKey(AccountOf(clone, self.source_id).assets, source)
        THEN Call(world_state_view, Err(<<"Failed to find asset.">>))
        ELSE IF AccountOf(clone, self.source_id).assets[source].quantity
                    < self.object.quantity
        THEN Call(world_state_view, Err(<<"Not enough assets.">>))
        ELSE IF ~HasAccount(clone, self.destination_id)
        THEN Call(world_state_view, Err(<<"Failed to find account.">>))
        ELSE Call(world_state_view,
                  Ok("Transfer",
                     WithQuantity(
                         WithQuantity(clone, source, 0 - self.object.quantity),
                         destination, self.object.quantity)))

\* --------------------------------------------------------------- dispatch
\* An instruction: the variant of the Instruction sum and its payload.
Instr(kind, payload) == [kind |-> kind, payload |-> payload]

\* From<Register<Domain, Account>> for Instruction
FromRegisterAccount(instruction) ==
    Instr("RegisterAccount",
          <<instruction.destination_id, instruction.object>>)

\* From<Register<Domain, AssetDefinition>> for Instruction
FromRegisterAssetDefinition(instruction) ==
    Instr("RegisterAsset",
          <<instruction.destination_id, instruction.object>>)

\* Faulty variant of DomainInstructionExecute: the generic Register is
\* built with the domain the object's id names as its destination.
DomainInstructionExecuteOwnDomain(instruction, authority, world_state_view) ==
    LET object == instruction.payload[2]
        domain_name == object.id.domain_name
    IN  IF instruction.kind = "RegisterAccount"
        THEN RegisterAccountExecute(Register(object, domain_name),
                                    authority, world_state_view)
        ELSE RegisterAssetDefinitionExecute(Register(object, domain_name),
                                            authority, world_state_view)

\* DomainInstruction::execute
DomainInstructionExecute(instruction, authority, world_state_view) ==
    LET domain_name == instruction.payload[1]
        object == instruction.payload[2]
    IN  IF instruction.kind = "RegisterAccount"
        THEN RegisterAccountExecute(Register(object, domain_name),
                                    authority, world_state_view)
        ELSE RegisterAssetDefinitionExecute(Register(object, domain_name),
                                            authority, world_state_view)

\* Instruction::execute
InstructionExecute(instruction, authority, world_state_view) ==
    CASE instruction.kind \in {"RegisterAccount", "RegisterAsset"} ->
             DomainInstructionExecute(instruction, authority, world_state_view)
      [] instruction.kind = "AddDomain" ->
             AddDomainExecute(instruction.payload, authority, world_state_view)
      [] instruction.kind = "Mint" ->
             MintExecute(instruction.payload, authority, world_state_view)
      [] instruction.kind = "Transfer" ->
             TransferExecute(instruction.payload, authority, world_state_view)

\* The world_state_view() of an Ok result.
OutputWsv(ret) == ret.output[1].world_state_view

\* The instructions of the set-up of the transfer test, in order.
CreateDomain == Instr("AddDomain", Register(Domain("d1"), "peer"))
CreateAccount1 ==
    FromRegisterAccount(Register(Account("a1", "d1", 1), "d1"))
CreateAccount2 ==
    FromRegisterAccount(Register(Account("a2", "d1", 1), "d1"))
CreateAsset ==
    FromRegisterAssetDefinition(Register(AssetDefinition(XorId), "d1"))

\* The WSV after each instruction of `instructions` succeeded in order.
RECURSIVE ExecuteAll(_, _, _)
ExecuteAll(instructions, authority, world_state_view) ==
    IF instructions = <<>>
    THEN world_state_view
    ELSE ExecuteAll(Tail(instructions), authority,
                    OutputWsv(InstructionExecute(Head(instructions), authority,
                                                 world_state_view).ret))

\* The WSV of the transfer test before it mints.
TestSetupWsv ==
    ExecuteAll(<<CreateDomain, CreateAccount1, CreateAccount2, CreateAsset>>,
               Root, EmptyWsv)

GenesisWsvs == {EmptyWsv, TestSetupWsv}

\* ------------------------------------------------------- instruction sets
AddDomains == {Instr("AddDomain", Register(Domain(d), "peer")) : d \in DomainNames}

RegisterAccounts ==
    {FromRegisterAccount(Register(a, d)) : a \in NewAccounts, d \in DomainNames}

RegisterAssets ==
    {FromRegisterAssetDefinition(Register(a, d)) :
        a \in NewAssetDefinitions, d \in DomainNames}

Mints ==
    {Instr("Mint", Register(q, AssetId(XorId, a))) :
        q \in 0..MaxQuantity, a \in {Account1Id, Account2Id}}

Transfers ==
    {Instr("Transfer",
           Transfer(Account1Id, Asset(AssetId(XorId, Account1Id), q), a)) :
        q \in 0..MaxQuantity, a \in {Account1Id, Account2Id}}

\* ------------------------------------------------------------ the applier
NoTx == [status |-> "none", authority |-> Root, before |-> EmptyWsv]

\* The applier on the WSV `w`, before its first transaction.
InitIsi(w) ==
    /\ wsv = w
    /\ working = w
    /\ transaction = [NoTx EXCEPT !.before = w]
    /\ tx_log = <<>>
    /\ steps = 0

\* The applier takes a transaction of `authority`: it works on a clone.
TxBegin(authority) ==
    /\ transaction.status # "running"
    /\ steps < MaxSteps
    /\ working' = wsv
    /\ transaction' = [status |-> "running", authority |-> authority, before |-> wsv]
    /\ tx_log' = <<>>
    /\ UNCHANGED <<wsv, steps>>
    /\ UNCHANGED isi_fixed

\* Faulty variant of TxExecute: the applier installs the WSV of every
\* instruction that succeeds at once.
TxExecuteEager(instruction) ==
    /\ transaction.status = "running"
    /\ steps < MaxSteps
    /\ steps' = steps + 1
    /\ LET call == InstructionExecute(instruction, transaction.authority,
                                      working) IN
       /\ tx_log' = Append(tx_log,
                           [instruction |-> instruction,
                            authority |-> transaction.authority,
                            arg |-> working,
                            caller |-> call.caller,
                            ret |-> call.ret])
       /\ IF call.ret.ok
          THEN /\ working' = OutputWsv(call.ret)
               /\ wsv' = OutputWsv(call.ret)
               /\ transaction' = transaction
          ELSE /\ working' = wsv
               /\ wsv' = wsv
               /\ transaction' = [transaction EXCEPT !.status = "failed"]
    /\ UNCHANGED isi_fixed

\* The applier executes the next instruction of the transaction on the WSV
\* the previous one returned; an Err ends the transaction.
TxExecute(instruction) ==
    /\ transaction.status = "running"
    /\ steps < MaxSteps
    /\ steps' = steps + 1
    /\ LET call == InstructionExecute(instruction, transaction.authority, working) IN
       /\ tx_log' = Append(tx_log,
                           [instruction |-> instruction,
                            authority |-> transaction.authority,
                            arg |-> working,
                            caller |-> call.caller,
                            ret |-> call.ret])
       /\ IF call.ret.ok
          THEN /\ working' = OutputWsv(call.ret)
               /\ transaction' = transaction
          ELSE /\ working' = wsv
               /\ transaction' = [transaction EXCEPT !.status = "failed"]
    /\ UNCHANGED wsv
    /\ UNCHANGED isi_fixed

\* Every instruction succeeded: the applier installs the final WSV.
TxCommit ==
    /\ transaction.status = "running"
    /\ tx_log # <<>>
    /\ wsv' = working
    /\ transaction' = [transaction EXCEPT !.status = "committed"]
    /\ UNCHANGED <<working, tx_log, steps>>
    /\ UNCHANGED isi_fixed

NextIsi ==
    \/ \E a \in Authorities : TxBegin(a)
    \/ \E i \in AddDomains : TxExecute(i)
    \/ \E i \in RegisterAccounts : TxExecute(i)
    \/ \E i \in RegisterAssets : TxExecute(i)
    \/ \E i \in Mints : TxExecute(i)
    \/ \E i \in Transfers : TxExecute(i)
    \/ TxCommit

\* ========================================================= Signatures
\* Signature and the Signatures container (iroha_crypto/src/lib.rs; the
\* container of iroha_client_no_std/src/crypto.rs is the same code).

\* ------------------------------------------------------------- bounds
\* Most signatures added to a container between two clears.
MaxAdded == 3
\* Longest list given to append.
MaxAppend == 2

\* ---------------------------------------------------------------- keys
ED_25519 == "ed25519"
SECP_256_K1 == "secp256k1"

\* A digest function that no Algorithm stands for.
UnsupportedDigest == "sha1"

\* The digest functions in the order of String: Ord.
DigestOrder == <<ED_25519, SECP_256_K1, UnsupportedDigest>>

PublicKey(digest_function, payload) ==
    [digest_function |-> digest_function, payload |-> payload]

PrivateKey(digest_function, payload) ==
    [digest_function |-> digest_function, payload |-> payload]

\* A key pair: the two payloads of pair `k` are written k.
KeyPair(digest_function, k) ==
    [public_key |-> PublicKey(digest_function, <<k>>),
     private_key |-> PrivateKey(digest_function, <<k>>)]

KeyPairs ==
    {KeyPair(ED_25519, 1), KeyPair(ED_25519, 2), KeyPair(UnsupportedDigest, 1)}

Messages == {<<1>>, <<2>>}

\* Results of the fallible functions of the crate.
Good(value) == [ok |-> TRUE, value |-> <<value>>, msg |-> <<>>]
Bad(msg) == [ok |-> FALSE, value |-> <<>>, msg |-> msg]

\* Faulty variant of AlgorithmFromStr: a name that is not known stands for
\* the default algorithm.
AlgorithmFromStrOrDefault(algorithm) ==
    IF algorithm = ED_25519 THEN Good("Ed25519")
    ELSE IF algorithm = SECP_256_K1 THEN Good("Secp256k1")
    ELSE Good("Ed25519")

\* impl FromStr for Algorithm
AlgorithmFromStr(algorithm) ==
    IF algorithm = ED_25519 THEN Good("Ed25519")
    ELSE IF algorithm = SECP_256_K1 THEN Good("Secp256k1")
    ELSE Bad(<<"The ", algorithm, " algorithm is not supported.">>)

\* SignatureScheme::sign of ursa: the signature bytes, symbolic.
UrsaSign(algorithm, message, private_key) ==
    Good(<<algorithm, private_key, message>>)

\* SignatureScheme::verify of ursa: an error on bytes that are no
\* signature, else whether they sign `message` under the key.
UrsaVerify(algorithm, message, signature, public_key) ==
    IF Len(signature) # 3
    THEN Bad(<<"Invalid signature length.">>)
    ELSE Good(signature = <<algorithm, public_key, message>>)

\* Signature::new
SignatureNew(key_pair, payload) ==
    LET private_key == key_pair.private_key.payload
        algorithm == AlgorithmFromStr(key_pair.public_key.digest_function)
    IN  IF ~algorithm.ok
        THEN Bad(algorithm.msg)
        ELSE LET signature ==
                     UrsaSign(algorithm.value[1], payload, private_key)
             IN  IF ~signature.ok
                 THEN Bad(<<"Failed to sign payload: ", signature.msg>>)
                 ELSE Good([public_key |-> key_pair.public_key,
                            signature |-> signature.value[1]])

\* Faulty variant of SignatureVerify: a digest function that is not
\* supported is verified as Ed25519.
SignatureVerifyDefaultAlgorithm(self, message) ==
    LET public_key == self.public_key.payload
        verified == UrsaVerify("Ed25519", message, self.signature, public_key)
    IN  IF ~verified.ok
        THEN Bad(verified.msg)
        ELSE IF verified.value[1]
        THEN Good(<<>>)
        ELSE Bad(<<"Signature did not pass verification.">>)

\* Signature::verify
SignatureVerify(self, message) ==
    LET public_key == self.public_key.payload
        algorithm == AlgorithmFromStr(self.public_key.digest_function)
    IN  IF ~algorithm.ok
        THEN Bad(algorithm.msg)
        ELSE LET verified == UrsaVerify(algorithm.value[1], message,
                                        self.signature, public_key)
             IN  IF ~verified.ok
                 THEN Bad(verified.msg)
                 ELSE IF verified.value[1]
                 THEN Good(<<>>)
                 ELSE Bad(<<"Signature did not pass verification.">>)

\* The signatures a container is given: what Signature::new makes of every
\* key pair it accepts and message, and decoded ones: bytes that are no
\* signature, and signatures under a key of an unsupported digest function.
GivenSignatures ==
    {SignatureNew(kp, m).value[1] :
        kp \in {k \in KeyPairs : SignatureNew(k, <<1>>).ok}, m \in Messages}
    \cup {[public_key |-> kp.public_key, signature |-> <<>>] : kp \in KeyPairs}
    \cup {[public_key |-> kp.public_key,
           signature |-> <<"Ed25519", kp.private_key.payload, m>>] :
             kp \in {k \in KeyPairs : ~SignatureNew(k, <<1>>).ok},
             m \in Messages}

\* ------------------------------------------------------------ container
\* The BTreeMap<PublicKey, Signature> as its set of entries.
Entry(key, value) == [key |-> key, value |-> value]

\* Signatures::default()
SignaturesDefault == {}

\* Faulty variant of SignaturesAdd: the entry is added and the one under
\* the same key stays.
SignaturesAddKeep(self, signature) ==
    self \cup {Entry(signature.public_key, signature)}

\* Signatures::add: BTreeMap::insert under the signature's public key.
SignaturesAdd(self, signature) ==
    {e \in self : e.key # signature.public_key}
        \cup {Entry(signature.public_key, signature)}

\* Faulty variant of SignaturesAppend: the list is added last element first.
RECURSIVE SignaturesAppendReversed(_, _)
SignaturesAppendReversed(self, list) ==
    IF list = <<>>
    THEN self
    ELSE SignaturesAdd(SignaturesAppendReversed(self, Tail(list)), Head(list))

\* Signatures::append: add of every signature of the slice, in its order.
RECURSIVE SignaturesAppend(_, _)
SignaturesAppend(self, list) ==
    IF list = <<>>
    THEN self
    ELSE SignaturesAppend(SignaturesAdd(self, Head(list)), Tail(list))

\* Signatures::contains
SignaturesContains(self, public_key) ==
    \E e \in self : e.key = public_key

\* Signatures::clear
SignaturesClear(self) == {}

\* Position of a digest function in the order of strings.
DigestRank(digest_function) ==
    CHOOSE i \in 1..Len(DigestOrder) : DigestOrder[i] = digest_function

\* Vec<u8>: Ord, the lexicographic order.
RECURSIVE BytesLess(_, _)
BytesLess(a, b) ==
    IF b = <<>> THEN FALSE
    ELSE IF a = <<>> THEN TRUE
    ELSE IF Head(a) # Head(b) THEN Head(a) < Head(b)
    ELSE BytesLess(Tail(a), Tail(b))

\* PublicKey: Ord (derived): digest_function, then payload.
KeyLess(a, b) ==
    \/ DigestRank(a.digest_function) < DigestRank(b.digest_function)
    \/ /\ a.digest_function = b.digest_function
       /\ BytesLess(a.payload, b.payload)

\* Faulty variant of Iter: the entries from the greatest key down.
RECURSIVE IterDescending(_)
IterDescending(self) ==
    IF self = {}
    THEN <<>>
    ELSE LET first == CHOOSE e \in self :
                          \A o \in self : ~KeyLess(e.key, o.key)
         IN  <<first>> \o IterDescending(self \ {first})

\* BTreeMap::iter: the entries in the order of their keys.
RECURSIVE Iter(_)
Iter(self) ==
    IF self = {}
    THEN <<>>
    ELSE LET first == CHOOSE e \in self :
                          \A o \in self : ~KeyLess(o.key, e.key)
         IN  <<first>> \o Iter(self \ {first})

\* Signatures::values
SignaturesValues(self) ==
    [i \in 1..Len(Iter(self)) |-> Iter(self)[i].value]

VerifyIsOk(signature, payload) == SignatureVerify(signature, payload).ok

\* Faulty variant of SignaturesVerified: the first failing signature ends
\* the collection.
SignaturesVerifiedUntilFailure(self, payload) ==
    LET values == SignaturesValues(self)
        n == CHOOSE k \in 0..Len(values) :
                 /\ \A i \in 1..k : VerifyIsOk(values[i], payload)
                 /\ k < Len(values) => ~VerifyIsOk(values[k + 1], payload)
    IN  SubSeq(values, 1, n)

\* Signatures::verified: iter, filter on verify(payload).is_ok(), collect.
SignaturesVerified(self, payload) ==
    SelectSeq(SignaturesValues(self), LAMBDA s : VerifyIsOk(s, payload))

\* --------------------------------------------------------------- actions
SeqsUpTo(S, n) == UNION {[1..k -> S] : k \in 0..n}

Op(op, arg, before) == [op |-> op, arg |-> arg, before |-> before]

\* A new, empty container.
InitSig ==
    /\ signatures = SignaturesDefault
    /\ added = <<>>
    /\ last_op = Op("default", <<>>, SignaturesDefault)
    /\ verified_out = <<>>

SigAdd(signature) ==
    /\ Len(added) < MaxAdded
    /\ signatures' = SignaturesAdd(signatures, signature)
    /\ added' = Append(added, signature)
    /\ last_op' = Op("add", <<signature>>, signatures)
    /\ verified_out' = <<>>
    /\ UNCHANGED sig_fixed

SigAppend(list) ==
    /\ Len(added) + Len(list) <= MaxAdded
    /\ signatures' = SignaturesAppend(signatures, list)
    /\ added' = added \o list
    /\ last_op' = Op("append", list, signatures)
    /\ verified_out' = <<>>
    /\ UNCHANGED sig_fixed

SigClear ==
    /\ last_op.op # "clear"
    /\ signatures' = SignaturesClear(signatures)
    /\ added' = <<>>
    /\ last_op' = Op("clear", <<>>, signatures)
    /\ verified_out' = <<>>
    /\ UNCHANGED sig_fixed

\* A caller asks for the signatures that verify `payload`.
SigVerified(payload) ==
    /\ verified_out' = <<[payload |-> payload,
                          result |-> SignaturesVerified(signatures, payload)]>>
    /\ UNCHANGED <<signatures, added, last_op>>
    /\ UNCHANGED sig_fixed

NextSig ==
    \/ \E s \in GivenSignatures : SigAdd(s)
    \/ \E l \in SeqsUpTo(GivenSignatures, MaxAppend) : SigAppend(l)
    \/ SigClear
    \/ \E m \in Messages : SigVerified(m)

\* =============================================================== keys
\* Public keys as text (iroha_crypto/src/lib.rs): Display, Serialize and
\* Deserialize through the multihash bytes and their hexadecimal text.

\* ------------------------------------------------------------- bounds
\* Longest payload of the enumerated public keys, in bytes.
MaxPayloadLen == 2

\* The public key payloads of tests::display_public_key.
TestPayloadEd25519 ==
    <<21, 9, 166, 17, 173, 109, 151, 176, 29, 135, 30, 88, 237, 0, 200, 253,
      124, 57, 23, 182, 202, 97, 168, 194, 131, 58, 25, 224, 0, 170, 194,
      228>>

TestPayloadSecp256k1 ==
    <<3, 18, 39, 62, 136, 16, 88, 30, 88, 148, 141, 63, 184, 249, 232, 173,
      83, 170, 162, 20, 146, 235, 184, 112, 57, 21, 187, 181, 101, 162, 27,
      127, 204>>

\* The texts tests::display_public_key expects, one character per element.
TestTextEd25519 ==
    <<"e", "d", "2", "0", "1", "5", "0", "9", "a", "6", "1", "1", "a", "d",
      "6", "d", "9", "7", "b", "0", "1", "d", "8", "7", "1", "e", "5", "8",
      "e", "d", "0", "0", "c", "8", "f", "d", "7", "c", "3", "9", "1", "7",
      "b", "6", "c", "a", "6", "1", "a", "8", "c", "2", "8", "3", "3", "a",
      "1", "9", "e", "0", "0", "0", "a", "a", "c", "2", "e", "4">>

TestTextSecp256k1 ==
    <<"e", "7", "2", "1", "0", "3", "1", "2", "2", "7", "3", "e", "8", "8",
      "1", "0", "5", "8", "1", "e", "5", "8", "9", "4", "8", "d", "3", "f",
      "b", "8", "f", "9", "e", "8", "a", "d", "5", "3", "a", "a", "a", "2",
      "1", "4", "9", "2", "e", "b", "b", "8", "7", "0", "3", "9", "1", "5",
      "b", "b", "b", "5", "6", "5", "a", "2", "1", "b", "7", "f", "c", "c">>

\* The bytes of the enumerated payloads.
PayloadBytes == {0, 9, 171, 255}

Payloads ==
    UNION {[1..n -> PayloadBytes] : n \in 0..MaxPayloadLen}
        \cup {TestPayloadEd25519, TestPayloadSecp256k1}

\* PublicKey has public fields: any digest_function, PublicKey::default()
\* has the empty one.
DigestFunctions == {ED_25519, SECP_256_K1, UnsupportedDigest, ""}

PublicKeys ==
    {PublicKey(d, p) : d \in DigestFunctions, p \in Payloads}

\* ------------------------------------------------------------------ hex
HexDigits ==
    <<"0", "1", "2", "3", "4", "5", "6", "7",
      "8", "9", "a", "b", "c", "d", "e", "f">>

UpperHexDigits ==
    <<"0", "1", "2", "3", "4", "5", "6", "7",
      "8", "9", "A", "B", "C", "D", "E", "F">>

\* hex::encode: two lower-case digits per byte, high nibble first.
RECURSIVE HexEncode(_)
HexEncode(bytes) ==
    IF bytes = <<>>
    THEN <<>>
    ELSE <<HexDigits[(Head(bytes) \div 16) + 1],
           HexDigits[(Head(bytes) % 16) + 1]>> \o HexEncode(Tail(bytes))

IsHexDigit(c) ==
    \E i \in 1..16 : HexDigits[i] = c \/ UpperHexDigits[i] = c

HexValue(c) ==
    (CHOOSE i \in 1..16 : HexDigits[i] = c \/ UpperHexDigits[i] = c) - 1

RECURSIVE HexDecodeDigits(_)
HexDecodeDigits(text) ==
    IF text = <<>>
    THEN <<>>
    ELSE <<HexValue(text[1]) * 16 + HexValue(text[2])>>
             \o HexDecodeDigits(SubSeq(text, 3, Len(text)))

\* hex::decode: an error on an odd length or a character that is no digit.
HexDecode(text) ==
    IF Len(text) % 2 # 0
    THEN Bad(<<"Odd number of digits">>)
    ELSE IF \E i \in 1..Len(text) : ~IsHexDigit(text[i])
    THEN Bad(<<"Invalid character">>)
    ELSE Good(HexDecodeDigits(text))

\* ------------------------------------------------------------ multihash
\* The one-byte codes of MultihashDigestFunction.
Ed25519PubCode == 237
Secp256k1PubCode == 231

Multihash(digest_function, payload) ==
    [digest_function |-> digest_function, payload |-> payload]

\* TryFrom<&Multihash> for Vec<u8>: code, one-byte length, payload.
MultihashToBytes(multihash) ==
    IF Len(multihash.payload) > 255
    THEN Bad(<<"Digest size can't fit into u8.">>)
    ELSE Good(<<IF multihash.digest_function = "Ed25519Pub"
                THEN Ed25519PubCode ELSE Secp256k1PubCode,
                Len(multihash.payload)>> \o multihash.payload)

\* TryFrom<Vec<u8>> for Multihash
MultihashFromBytes(bytes) ==
    IF Len(bytes) < 2
    THEN Bad(<<"Not enough bytes.">>)
    ELSE IF bytes[1] \notin {Ed25519PubCode, Secp256k1PubCode}
    THEN Bad(<<"The specified digest function is not supported.">>)
    ELSE IF bytes[2] # Len(bytes) - 2
    THEN Bad(<<"Digest size not equal to actual length.">>)
    ELSE Good(Multihash(IF bytes[1] = Ed25519PubCode
                        THEN "Ed25519Pub" ELSE "Secp256k1Pub",
                        SubSeq(bytes, 3, Len(bytes))))

\* TryFrom<&Multihash> for PublicKey
PublicKeyFromMultihash(multihash) ==
    Good(PublicKey(IF multihash.digest_function = "Ed25519Pub"
                   THEN ED_25519 ELSE SECP_256_K1,
                   multihash.payload))

\* Faulty variant of MultihashFromPublicKey: the two digest functions are
\* taken for each other.
MultihashFromPublicKeySwapped(public_key) ==
    IF public_key.digest_function = ED_25519
    THEN Good(Multihash("Secp256k1Pub", public_key.payload))
    ELSE IF public_key.digest_function = SECP_256_K1
    THEN Good(Multihash("Ed25519Pub", public_key.payload))
    ELSE Bad(<<"Digest function not implemented.">>)

\* TryFrom<&PublicKey> for Multihash
MultihashFromPublicKey(public_key) ==
    IF public_key.digest_function = ED_25519
    THEN Good(Multihash("Ed25519Pub", public_key.payload))
    ELSE IF public_key.digest_function = SECP_256_K1
    THEN Good(Multihash("Secp256k1Pub", public_key.payload))
    ELSE Bad(<<"Digest function not implemented.">>)

\* What a formatting call leaves: the text, or a panic.
Text(text) == [panic |-> FALSE, text |-> text, msg |-> <<>>]
Panic(msg) == [panic |-> TRUE, text |-> <<>>, msg |-> msg]

\* impl Display for PublicKey: both conversions are expect()ed.
PublicKeyDisplay(self) ==
    LET multihash == MultihashFromPublicKey(self) IN
    IF ~multihash.ok
    THEN Panic(<<"Failed to get multihash representation.", multihash.msg>>)
    ELSE LET bytes == MultihashToBytes(multihash.value[1]) IN
         IF ~bytes.ok
         THEN Panic(<<"Failed to convert multihash to bytes.", bytes.msg>>)
         ELSE Text(HexEncode(bytes.value[1]))

\* impl Serialize for PublicKey: serialize_str(&format!("{}", self))
PublicKeySerialize(self) == PublicKeyDisplay(self)

\* impl Deserialize for PublicKey
PublicKeyDeserialize(text) ==
    LET bytes == HexDecode(text) IN
    IF ~bytes.ok
    THEN Bad(bytes.msg)
    ELSE LET multihash == MultihashFromBytes(bytes.value[1]) IN
         IF ~multihash.ok
         THEN Bad(multihash.msg)
         ELSE PublicKeyFromMultihash(multihash.value[1])

\* ----------------------------------------------------------- key pairs
Algorithms == {"Ed25519", "Secp256k1"}

\* impl Display for Algorithm
AlgorithmToString(algorithm) ==
    IF algorithm = "Ed25519" THEN ED_25519 ELSE SECP_256_K1

\* KeyPair::generate_with_configuration: the key pair number `k` of the
\* scheme of `algorithm`.
KeyPairGenerate(algorithm, k) ==
    Good(KeyPair(AlgorithmToString(algorithm), k))

\* KeyGenConfiguration::use_private_key(private_key)
FromPrivateKey(private_key) == [kind |-> "FromPrivateKey", key |-> private_key]

\* format!("Ursa does not support {} digest function.", key.digest_function)
UrsaDoesNotSupport(digest_function) ==
    <<"Ursa does not support ", digest_function, " digest function.">>

\* TryFrom<KeyGenOption> for UrsaKeyGenOption, the FromPrivateKey arm: the
\* secret key bytes.
UrsaKeyGenOptionFrom(key_gen_option) ==
    IF \/ key_gen_option.key.digest_function = ED_25519
       \/ key_gen_option.key.digest_function = SECP_256_K1
    THEN Good(key_gen_option.key.payload)
    ELSE Bad(UrsaDoesNotSupport(key_gen_option.key.digest_function))

\* KeyPair::generate_with_configuration with a private key: the pair whose
\* secret key it is, in the scheme of `algorithm`.
KeyPairGenerateFromPrivateKey(algorithm, private_key) ==
    LET key_gen_option == UrsaKeyGenOptionFrom(FromPrivateKey(private_key)) IN
    IF ~key_gen_option.ok
    THEN Bad(key_gen_option.msg)
    ELSE Good([public_key |-> PublicKey(AlgorithmToString(algorithm),
                                        key_gen_option.value[1]),
               private_key |-> PrivateKey(AlgorithmToString(algorithm),
                                          key_gen_option.value[1])])

GeneratedKeyPairs ==
    {KeyPairGenerate(a, k).value[1] : a \in Algorithms, k \in {1, 2}}

\* Every key pair a caller may hold: the generated ones and one whose digest
\* function no Algorithm stands for.
AnyKeyPairs == GeneratedKeyPairs \cup {KeyPair(UnsupportedDigest, 1)}

\* -------------------------------------------------- calls on the keys
\* The caller's values: a public key, a key pair and a payload; and what
\* each function returned when it was last applied to them (none yet: <<>>).
Crypto(public_key, key_pair, payload) ==
    [public_key |-> public_key, key_pair |-> key_pair, payload |-> payload,
     signature |-> <<>>, verify_payload |-> <<>>, verified |-> <<>>,
     displayed |-> <<>>, serialized |-> <<>>, deserialized |-> <<>>,
     given |-> <<>>, generated |-> <<>>]

NoCrypto == Crypto(PublicKey("", <<>>), KeyPair(ED_25519, 1), <<1>>)

InitKeys(public_key, key_pair, payload) ==
    crypto = Crypto(public_key, key_pair, payload)

\* Signature::new(key_pair, payload)
CryptoSign ==
    /\ crypto.signature = <<>>
    /\ crypto' = [crypto EXCEPT
                    !.signature = <<SignatureNew(crypto.key_pair, crypto.payload)>>]
    /\ UNCHANGED keys_fixed

\* signature.verify(message) on the signature made before
CryptoVerify(message) ==
    /\ crypto.signature # <<>>
    /\ crypto.signature[1].ok
    /\ crypto' = [crypto EXCEPT
                    !.verify_payload = <<message>>,
                    !.verified = <<SignatureVerify(crypto.signature[1].value[1],
                                                   message)>>]
    /\ UNCHANGED keys_fixed

\* format!("{}", public_key)
CryptoDisplay ==
    /\ crypto.displayed = <<>>
    /\ crypto' = [crypto EXCEPT
                    !.displayed = <<PublicKeyDisplay(crypto.public_key)>>]
    /\ UNCHANGED keys_fixed

\* public_key.serialize(..)
CryptoSerialize ==
    /\ crypto.serialized = <<>>
    /\ crypto' = [crypto EXCEPT
                    !.serialized = <<PublicKeySerialize(crypto.public_key)>>]
    /\ UNCHANGED keys_fixed

\* PublicKey::deserialize(..) of the text serialized before
CryptoDeserialize ==
    /\ crypto.serialized # <<>>
    /\ ~crypto.serialized[1].panic
    /\ crypto.deserialized = <<>>
    /\ crypto' = [crypto EXCEPT
                    !.deserialized =
                        <<PublicKeyDeserialize(crypto.serialized[1].text)>>]
    /\ UNCHANGED keys_fixed

\* A Signature that was decoded, not made by Signature::new: the caller's
\* public key with the bytes an Ed25519 signer makes of the payload.
DecodedSignature ==
    [public_key |-> crypto.key_pair.public_key,
     signature |-> <<"Ed25519", crypto.key_pair.private_key.payload,
                     crypto.payload>>]

\* signature.verify(message) on the decoded signature
CryptoVerifyDecoded(message) ==
    /\ crypto' = [crypto EXCEPT
                    !.given = <<[signature |-> DecodedSignature,
                                 payload |-> message,
                                 out |-> SignatureVerify(DecodedSignature,
                                                         message)]>>]
    /\ UNCHANGED keys_fixed

\* KeyPair::generate_with_configuration(
\*     KeyGenConfiguration::default().use_private_key(..).with_algorithm(..))
CryptoGenerate(algorithm) ==
    /\ crypto' = [crypto EXCEPT
                    !.generated =
                        <<[algorithm |-> algorithm,
                           out |-> KeyPairGenerateFromPrivateKey(
                                       algorithm, crypto.key_pair.private_key)]>>]
    /\ UNCHANGED keys_fixed

NextKeys ==
    \/ \E m \in Messages : CryptoVerifyDecoded(m)
    \/ \E a \in Algorithms : CryptoGenerate(a)
    \/ CryptoSign
    \/ \E m \in Messages : CryptoVerify(m)
    \/ CryptoDisplay
    \/ CryptoSerialize
    \/ CryptoDeserialize

\* ============================================================ queries
\* The queries on domains (iroha/src/domain.rs, mod query).

\* ------------------------------------------------------------- bounds
\* Most instructions executed on a genesis WSV before it is queried.
MaxSetup == 2

\* WorldStateView::read_domain(&name): Option<&Domain>
ReadDomain(world_state_view, name) ==
    IF ContainsKey(world_state_view.domains, name)
    THEN <<world_state_view.domains[name]>>
    ELSE <<>>

\* The values of a map, in the order the map iterates its keys (one fixed
\* order).
RECURSIVE MapValues(_)
MapValues(map) ==
    IF DOMAIN map = {}
    THEN <<>>
    ELSE LET first == CHOOSE k \in DOMAIN map : TRUE
         IN  <<map[first]>>
             \o MapValues([k \in (DOMAIN map) \ {first} |-> map[k]])

\* WorldStateView::read_all_domains(): Vec<&Domain>
ReadAllDomains(world_state_view) == MapValues(world_state_view.domains)

\* Ok(QueryResult::GetAllDomains(GetAllDomainsResult { domains }))
GetAllDomainsResult(domains) ==
    [ok |-> TRUE, msg |-> <<>>,
     output |-> <<[kind |-> "GetAllDomains", domains |-> domains]>>]

\* Ok(QueryResult::GetDomain(GetDomainResult { domain }))
GetDomainResult(domain) ==
    [ok |-> TRUE, msg |-> <<>>,
     output |-> <<[kind |-> "GetDomain", domain |-> domain]>>]

FailedToGetDomain == <<"Failed to get a domain.">>

\* impl Query for GetAllDomains: execute(&self, &world_state_view)
GetAllDomainsExecute(world_state_view) ==
    Call(world_state_view,
         GetAllDomainsResult(ReadAllDomains(world_state_view)))

\* Faulty variant of GetDomainExecute: a domain that is missing is created.
GetDomainOrCreate(domain_name, world_state_view) ==
    LET domain == ReadDomain(world_state_view, domain_name) IN
    IF domain = <<>>
    THEN Call([world_state_view EXCEPT
                 !.domains = Insert(@, domain_name, Domain(domain_name))],
              GetDomainResult(Domain(domain_name)))
    ELSE Call(world_state_view, GetDomainResult(domain[1]))

\* impl Query for GetDomain: execute(&self, &world_state_view)
GetDomainExecute(domain_name, world_state_view) ==
    LET domain == ReadDomain(world_state_view, domain_name) IN
    IF domain = <<>>
    THEN Call(world_state_view, Err(FailedToGetDomain))
    ELSE Call(world_state_view, GetDomainResult(domain[1]))

\* ------------------------------------------------- the WSVs queried
\* The WSVs the instructions of `instructions`, executed by Root, make of
\* the WSVs of `wsvs`.
After(wsvs, instructions) ==
    {OutputWsv(InstructionExecute(x[2], Root, x[1]).ret) :
        x \in {y \in wsvs \X instructions :
                  InstructionExecute(y[2], Root, y[1]).ret.ok}}

RECURSIVE SetupWsvs(_)
SetupWsvs(n) ==
    IF n = 0
    THEN GenesisWsvs
    ELSE LET wsvs == SetupWsvs(n - 1) IN
         wsvs \cup After(wsvs, AddDomains) \cup After(wsvs, RegisterAccounts)
              \cup After(wsvs, RegisterAssets) \cup After(wsvs, Mints)

\* ... and the same WSVs with every permission revoked.
QueryWsvs ==
    LET wsvs == SetupWsvs(MaxSetup) IN
    wsvs \cup {[w EXCEPT !.permissions = {}] : w \in wsvs}

\* ------------------------------------------------------------ the calls
Answer(query, arg, out) == [query |-> query, arg |-> arg, out |-> out]

NoAnswer == Answer(<<>>, EmptyWsv, Err(<<>>))

QueryAllDomains ==
    LET call == GetAllDomainsExecute(wsv) IN
    /\ wsv' = call.caller
    /\ answer' = Answer(<<"GetAllDomains">>, wsv, call.ret)
    /\ UNCHANGED query_fixed

QueryDomain(domain_name) ==
    LET call == GetDomainExecute(domain_name, wsv) IN
    /\ wsv' = call.caller
    /\ answer' = Answer(<<"GetDomain", domain_name>>, wsv, call.ret)
    /\ UNCHANGED query_fixed

NextQuery ==
    \/ QueryAllDomains
    \/ \E n \in DomainNames : QueryDomain(n)

\* ------------------------------------------------------- specifications
\* No pure function has been called.
InitPure ==
    /\ crypto = NoCrypto
    /\ answer = NoAnswer

\* The Kura of the tests of kura.rs: Kura::new(Mode::Strict, ..).
Init == InitMode("Strict") /\ InitIsi(EmptyWsv) /\ InitSig /\ InitPure

\* A Kura of either mode.
InitAnyMode ==
    (\E m \in Modes : InitMode(m)) /\ InitIsi(EmptyWsv) /\ InitSig /\ InitPure

Spec == Init /\ [][Next]_vars

\* The same Kura, constructed in either mode.
SpecMode == InitAnyMode /\ [][Next]_vars

\* The applier on a genesis WSV.
InitGenesis ==
    InitMode("Strict") /\ (\E w \in GenesisWsvs : InitIsi(w)) /\ InitSig
    /\ InitPure

SpecIsi == InitGenesis /\ [][NextIsi]_vars

\* The Kura when no call on it is cancelled: the task that owns it is polled
\* whenever it can go on (an awaited send completes once the channel has
\* room, and store then runs to its return), and the consumer of the commit
\* channel keeps receiving.
NextRun ==
    \/ KuraNew
    \/ KuraInit
    \/ \E b \in IncomingBlocks : StoreBegin(b)
    \/ FileCreateOk
    \/ FileCreateErr
    \/ WriteAllOk
    \/ \E k \in PartialWrites : WriteAllErr(k)
    \/ Send
    \/ Push
    \/ Recover
    \/ Receive

SpecLive ==
    /\ Init
    /\ [][NextRun]_vars
    /\ WF_vars(Send)
    /\ WF_vars(Push)
    /\ WF_vars(Receive)

\* A Signatures container under any calls.
SpecSig == Init /\ [][NextSig]_vars

\* Any public key, key pair and payload, under the calls on them.
InitAnyKeys ==
    /\ InitMode("Strict") /\ InitIsi(EmptyWsv) /\ InitSig
    /\ \E p \in PublicKeys, kp \in AnyKeyPairs, m \in Messages : InitKeys(p, kp, m)
    /\ answer = NoAnswer

SpecKeys == InitAnyKeys /\ [][NextKeys]_vars

\* Any WSV the instructions make of a genesis WSV, under queries.
InitAnyWsv ==
    /\ InitMode("Strict") /\ (\E w \in QueryWsvs : InitIsi(w)) /\ InitSig
    /\ InitPure

SpecQuery == InitAnyWsv /\ [][NextQuery]_vars

\* ------------------------------------------------------------- claims
\* Every CommittedBlock sent so far, in the order of sending.
Sent == received \o channel

\* The store holds exactly the blocks `bs` at heights 0..Len(bs)-1, each file
\* the encoding of its block, and no file at height Len(bs).
StoreHoldsPrefix(bs) ==
    /\ \A i \in 1..Len(bs) :
          /\ GetBlockFilename(i - 1) \in DOMAIN files
          /\ files[GetBlockFilename(i - 1)] = Encode(bs[i])
    /\ GetBlockFilename(Len(bs)) \notin DOMAIN files

\* C1: when every block stored into an empty tail was chained at height 0,
\* each block of the tail has the height of its predecessor plus one and the
\* hash of its predecessor as previous_block_hash.
C1_ChainInvariant ==
    pre_chained =>
        \A i \in 1..(Len(blocks) - 1) :
            /\ blocks[i + 1].header.previous_block_hash = BlockHash(blocks[i])
            /\ blocks[i + 1].header.height = blocks[i].header.height + 1

\* C1 witness: a store has returned Ok on a chain of two blocks or more.
C1_Witness ==
    /\ pre_chained
    /\ result.kind = "ok"
    /\ Len(blocks) >= 2

\* C2: a block stamped on a non-empty tail has the height of the last block
\* of the tail plus one and the hash of that block as previous_block_hash.
C2_StampFollowsLastHeight ==
    (pc \in {"create", "write_all", "send", "push"} /\ at_call.blocks # <<>>) =>
        /\ block.header.height =
              at_call.blocks[Len(at_call.blocks)].header.height + 1
        /\ block.header.previous_block_hash =
              BlockHash(at_call.blocks[Len(at_call.blocks)])

\* C3: once store has returned Ok(h), the file named by the height of the
\* stored block exists, read of that height gives a block with hash h, and h
\* is the hash of the block appended to the tail.
C3_StoreReadRoundTrip ==
    result.kind = "ok" =>
        /\ blocks = Append(at_call.blocks, block)
        /\ GetBlockFilename(block.header.height) \in DOMAIN files
        /\ ReadOutcome(files, block.header.height) = "ok"
        /\ BlockHash(ReadBlock(files, block.header.height)) = result.hash
        /\ ReadBlock(files, block.header.height) = block
        /\ result.hash = BlockHash(blocks[Len(blocks)])

\* C3 witness: a store on a non-empty tail has returned Ok.
C3_Witness ==
    /\ result.kind = "ok"
    /\ Len(blocks) >= 2
    /\ block.header.height = 1

\* C4: a store call whose write failed ends by returning the error, with
\* nothing sent and the tail as it was when the call began.
C4_WriteFailureReturnsError ==
    result.kind \in {"err", "store_panic"} =>
        /\ result.kind = "err"
        /\ blocks = at_call.blocks
        /\ Len(Sent) = at_call.sent

\* C5: after a cancelled store, either the file of the stamped height exists
\* and the tail was advanced by the block, or there is no such file and the
\* tail is unchanged.
C5_CancelAtomicity ==
    result.kind = "cancelled" =>
        \/ /\ WritePath(block) \in DOMAIN files
           /\ blocks = Append(at_call.blocks, block)
        \/ /\ WritePath(block) \notin DOMAIN files
           /\ blocks = at_call.blocks

\* C6: a block is sent only when its file holds it, and store appends a block
\* to the tail only when the file holds it and its CommittedBlock is the last
\* one sent.
C6_SendAndPushAfterWrite ==
    [][ /\ Sent' # Sent =>
            /\ Sent' = Append(Sent, Commit(block))
            /\ WritePath(block) \in DOMAIN files
            /\ files[WritePath(block)] = Encode(block)
        /\ (blocks' # blocks /\ result'.kind \notin {"init_ok", "new"}) =>
            /\ blocks' = Append(blocks, block)
            /\ Sent # <<>>
            /\ Sent[Len(Sent)] = Commit(block)
            /\ Len(Sent) = at_call.sent + 1
            /\ WritePath(block) \in DOMAIN files
            /\ files[WritePath(block)] = Encode(block)
      ]_vars

\* C6 witness: store has pushed a block whose CommittedBlock is still in the
\* channel.
C6_Witness ==
    /\ result.kind = "ok"
    /\ channel # <<>>
    /\ channel[Len(channel)] = Commit(blocks[Len(blocks)])

\* C7: once a store has returned Ok it has sent exactly one CommittedBlock,
\* the committed form of the stamped block, and the blocks sent have strictly
\* increasing heights.
C7_CommitOrder ==
    /\ result.kind = "ok" =>
          /\ Len(Sent) = at_call.sent + 1
          /\ Sent[Len(Sent)] = Commit(block)
    /\ \A i \in 1..Len(Sent) : \A j \in 1..Len(Sent) :
          i < j => Sent[i].header.height < Sent[j].header.height

\* C8: once a store has returned Ok, the Merkle tree is the tree over the
\* blocks of the tail, the stored block included.
C8_MerkleFollowsTail ==
    result.kind = "ok" => merkle_tree = MerkleBuild(blocks)

\* C9: once init has returned, the tail is the sequence of blocks the store
\* holds at heights 0..k-1 (k the lowest height without a file) and the
\* Merkle tree is built over them; on an empty store the tail is empty.
C9_InitLoadsStore ==
    result.kind = "init_ok" =>
        /\ StoreHoldsPrefix(blocks)
        /\ merkle_tree = MerkleBuild(blocks)
        /\ (DOMAIN files = {} => blocks = <<>>)

\* C9 witness: init has returned on a Kura whose store holds blocks, some of
\* them already sent by an earlier store.
C9_Witness ==
    /\ result.kind = "init_ok"
    /\ Len(blocks) >= 2
    /\ Sent # <<>>

\* C10: when read_all returns, it returns the decoded files 0..k-1 in that
\* order, k the lowest height without a file, each block at its own height.
C10_ReadAllPrefix ==
    ~ReadAll(files).panic =>
        /\ StoreHoldsPrefix(ReadAll(files).blocks)
        /\ \A i \in 1..Len(ReadAll(files).blocks) :
              ReadAll(files).blocks[i].header.height = i - 1

\* C10 witness: init has read a store that holds a file above the lowest
\* missing height.
C10_Witness ==
    /\ result.kind = "init_ok"
    /\ blocks = ReadAll(files).blocks
    /\ \E h \in 1..MaxInHeight :
          /\ h > Len(blocks)
          /\ GetBlockFilename(h) \in DOMAIN files

\* ----------------------------------------------------- load-time validation
\* The chain relation that validation of a stored block checks at load time:
\* the block at height 0 carries the zero hash, every later block the hash
\* of the block before it and the following height.
Validates(bs, i) ==
    IF i = 1
    THEN /\ bs[1].header.height = 0
         /\ bs[1].header.previous_block_hash = ZeroHash
    ELSE /\ bs[i].header.height = bs[i - 1].header.height + 1
         /\ bs[i].header.previous_block_hash = BlockHash(bs[i - 1])

\* C11: after the init of a Strict Kura returned Ok, every block of the tail
\* passes validation (a Fast Kura accepts every stored block).
C11_StrictInitValidates ==
    (mode = "Strict" /\ result.kind = "init_ok") =>
        \A i \in 1..Len(blocks) : Validates(blocks, i)

\* ------------------------------------------------- claims on instructions
\* The execute calls of the transaction, by position in tx_log.
CallIds == 1..Len(tx_log)

IsRegister(c) == c.instruction.kind \in {"RegisterAccount", "RegisterAsset"}

\* The call is a Register whose object's id is a key of the map `field` of
\* its destination domain in the WSV it was given.
Duplicate(c, kind, field) ==
    /\ c.instruction.kind = kind
    /\ HasDomain(c.arg, c.instruction.payload[1])
    /\ ContainsKey(c.arg.domains[c.instruction.payload[1]][field],
                   c.instruction.payload[2].id)

PermissionDenied(c, permission) ==
    <<c.authority, permission>> \notin c.arg.permissions

\* C12: when a Register execute returns Err, the WSV the caller passed in is
\* what it was before the call.
C12_FailedRegisterLeavesWsv ==
    \A i \in CallIds :
        (IsRegister(tx_log[i]) /\ ~tx_log[i].ret.ok) =>
            tx_log[i].caller = tx_log[i].arg

\* A Register of an account that differs from the one stored under its id
\* has returned Err.
C12_Witness ==
    \E i \in CallIds :
        /\ Duplicate(tx_log[i], "RegisterAccount", "accounts")
        /\ ~tx_log[i].ret.ok
        /\ tx_log[i].arg.domains[tx_log[i].instruction.payload[1]]
               .accounts[tx_log[i].instruction.payload[2].id]
           # tx_log[i].instruction.payload[2]

\* The duplicate account registration ended as the claim says: the error is
\* the "already contains" one and the stored account is the one of before.
DuplicateAccountRejected(c) ==
    /\ ~c.ret.ok
    /\ c.ret.msg[1] = AlreadyContains
    /\ c.caller.domains[c.instruction.payload[1]]
           .accounts[c.instruction.payload[2].id]
       = c.arg.domains[c.instruction.payload[1]]
             .accounts[c.instruction.payload[2].id]

\* C13 as stated: every Register of an account whose id is a key of the
\* destination domain's accounts returns the "already contains" error and
\* leaves the stored account.
C13_DuplicateAccountAlways ==
    \A i \in CallIds :
        Duplicate(tx_log[i], "RegisterAccount", "accounts") =>
            DuplicateAccountRejected(tx_log[i])

\* C13, amended: the same, for an authority that passes CanRegisterAccount.
C13_DuplicateAccountPermitted ==
    \A i \in CallIds :
        (/\ Duplicate(tx_log[i], "RegisterAccount", "accounts")
         /\ ~PermissionDenied(tx_log[i], "CanRegisterAccount")) =>
            DuplicateAccountRejected(tx_log[i])

\* A permitted authority registered an account under a taken id, with other
\* signatories than the stored account's.
C13_Witness ==
    \E i \in CallIds :
        /\ Duplicate(tx_log[i], "RegisterAccount", "accounts")
        /\ ~PermissionDenied(tx_log[i], "CanRegisterAccount")
        /\ tx_log[i].arg.domains[tx_log[i].instruction.payload[1]]
               .accounts[tx_log[i].instruction.payload[2].id].signatories
           # tx_log[i].instruction.payload[2].signatories
        /\ transaction.status = "failed"

\* C14: a Register of an asset definition whose id is a key of the
\* destination domain's asset_definitions returns Err and leaves the stored
\* definition.
C14_DuplicateAssetDefinitionIsError ==
    \A i \in CallIds :
        Duplicate(tx_log[i], "RegisterAsset", "asset_definitions") =>
            /\ ~tx_log[i].ret.ok
            /\ tx_log[i].caller = tx_log[i].arg

\* C15: a Register whose authority fails the permission check returns that
\* permission error, whatever the domain and the id, and returns no WSV and
\* leaves the one it was given.
C15_PermissionFirst ==
    \A i \in CallIds :
        LET c == tx_log[i]
            permission == IF c.instruction.kind = "RegisterAccount"
                          THEN "CanRegisterAccount"
                          ELSE "CanRegisterAssetDefinition"
        IN  (IsRegister(c) /\ PermissionDenied(c, permission)) =>
                /\ c.ret = Err(PermissionExecute(permission, c.authority,
                                                 c.arg).msg)
                /\ c.ret.output = <<>>
                /\ c.caller = c.arg

\* An authority without the permission registered an account in a domain
\* that does not exist.
C15_Witness ==
    \E i \in CallIds :
        /\ tx_log[i].instruction.kind = "RegisterAccount"
        /\ PermissionDenied(tx_log[i], "CanRegisterAccount")
        /\ ~HasDomain(tx_log[i].arg, tx_log[i].instruction.payload[1])
        /\ ~tx_log[i].ret.ok

\* C16: the instructions of a transaction execute in order, each on the WSV
\* the previous one returned, the first on the applier's WSV; the applier's
\* WSV becomes the last returned WSV exactly when all succeeded and the
\* transaction committed, and is the WSV of before otherwise.
C16_TransactionAtomic ==
    /\ \A i \in CallIds :
          /\ tx_log[i].arg = IF i = 1 THEN transaction.before
                             ELSE OutputWsv(tx_log[i - 1].ret)
          /\ i < Len(tx_log) => tx_log[i].ret.ok
    /\ transaction.status = "committed" =>
          /\ \A i \in CallIds : tx_log[i].ret.ok
          /\ wsv = OutputWsv(tx_log[Len(tx_log)].ret)
    /\ transaction.status \in {"running", "failed"} =>
          wsv = transaction.before
    /\ transaction.status = "failed" <=>
          (tx_log # <<>> /\ ~tx_log[Len(tx_log)].ret.ok)

\* A transaction failed at its second instruction after the first one had
\* changed the WSV it worked on.
C16_Witness ==
    /\ transaction.status = "failed"
    /\ Len(tx_log) >= 2
    /\ OutputWsv(tx_log[1].ret) # transaction.before

\* The quantity of asset definition `definition_id` that `account_id` holds.
Quantity(world_state_view, definition_id, account_id) ==
    LET id == AssetId(definition_id, account_id) IN
    IF /\ HasAccount(world_state_view, account_id)
       /\ ContainsKey(AccountOf(world_state_view, account_id).assets, id)
    THEN AccountOf(world_state_view, account_id).assets[id].quantity
    ELSE 0

\* The assets of definition `definition_id` that `account_id` holds.
AssetsOf(world_state_view, definition_id, account_id) ==
    {id \in DOMAIN AccountOf(world_state_view, account_id).assets :
        id.definition_id = definition_id}

\* The call is a transfer between two different accounts of the WSV, by a
\* permitted authority, from an account that holds the asset.
TransferCase(c) ==
    /\ c.instruction.kind = "Transfer"
    /\ ~PermissionDenied(c, "CanTransferAsset")
    /\ c.instruction.payload.source_id # c.instruction.payload.destination_id
    /\ HasAccount(c.arg, c.instruction.payload.source_id)
    /\ HasAccount(c.arg, c.instruction.payload.destination_id)
    /\ AssetsOf(c.arg, c.instruction.payload.object.id.definition_id,
                c.instruction.payload.source_id) # {}

\* C17: a transfer of q of d from a1, which holds q0 >= q, to a2 leaves a1
\* with q0 - q and a2 with one asset of d, q more than before, the total
\* unchanged; a transfer of more than a1 holds fails and changes nothing.
C17_TransferMovesQuantity ==
    \A i \in CallIds :
        LET c == tx_log[i]
            a1 == c.instruction.payload.source_id
            a2 == c.instruction.payload.destination_id
            d  == c.instruction.payload.object.id.definition_id
            q  == c.instruction.payload.object.quantity
            q0 == Quantity(c.arg, d, a1)
        IN  TransferCase(c) =>
                IF q <= q0
                THEN /\ c.ret.ok
                     /\ Quantity(OutputWsv(c.ret), d, a1) = q0 - q
                     /\ Quantity(OutputWsv(c.ret), d, a2)
                            = Quantity(c.arg, d, a2) + q
                     /\ Cardinality(AssetsOf(OutputWsv(c.ret), d, a2)) = 1
                     /\ Quantity(OutputWsv(c.ret), d, a1)
                            + Quantity(OutputWsv(c.ret), d, a2)
                        = q0 + Quantity(c.arg, d, a2)
                ELSE /\ ~c.ret.ok
                     /\ c.caller = c.arg
                     /\ wsv = transaction.before

\* After a mint to a1, a part of what a1 holds was transferred to a2, which
\* held nothing.
C17_Witness ==
    \E i \in CallIds :
        LET c == tx_log[i] IN
        /\ TransferCase(c)
        /\ c.ret.ok
        /\ c.instruction.payload.object.quantity > 0
        /\ Quantity(c.arg, XorId, Account1Id)
               > c.instruction.payload.object.quantity
        /\ AssetsOf(c.arg, XorId, Account2Id) = {}
        /\ transaction.status = "committed"

\* C18: every account of the applier's WSV is stored under its id, in the
\* domain its id names.
C18_AccountPlacement ==
    \A d \in DOMAIN wsv.domains :
        \A k \in DOMAIN wsv.domains[d].accounts :
            /\ wsv.domains[d].accounts[k].id = k
            /\ k.domain_name = d

\* --------------------------------------------------- claims on Signatures
\* The container after add of list[1], .., list[n], in that order.
RECURSIVE AddFirst(_, _, _)
AddFirst(self, list, n) ==
    IF n = 0
    THEN self
    ELSE SignaturesAdd(AddFirst(self, list, n - 1), list[n])

\* C19: the container holds one entry per public key, the signature added
\* last for that key since the last clear; append is add of each element in
\* list order; clear leaves it empty.
C19_OneSignaturePerKey ==
    /\ \A e1, e2 \in signatures : e1.key = e2.key => e1 = e2
    /\ \A e \in signatures :
          /\ e.value.public_key = e.key
          /\ \E i \in 1..Len(added) :
                /\ added[i] = e.value
                /\ \A j \in (i + 1)..Len(added) : added[j].public_key # e.key
    /\ \A i \in 1..Len(added) :
          SignaturesContains(signatures, added[i].public_key)
    /\ last_op.op = "append" =>
          signatures = AddFirst(last_op.before, last_op.arg, Len(last_op.arg))
    /\ last_op.op = "clear" => signatures = {}

\* An append of two different signatures of one public key to a container
\* that held a third signature of that key.
C19_Witness ==
    /\ last_op.op = "append"
    /\ Len(last_op.arg) = 2
    /\ last_op.arg[1].public_key = last_op.arg[2].public_key
    /\ last_op.arg[1] # last_op.arg[2]
    /\ \E e \in last_op.before :
          /\ e.key = last_op.arg[1].public_key
          /\ e.value # last_op.arg[1]
          /\ e.value # last_op.arg[2]

\* C20: verified(m) returns, once each, the signatures of values() for which
\* verify(m) is Ok and no other; a signature under a digest function that is
\* not supported is left out.
C20_VerifiedIsFilter ==
    verified_out # <<>> =>
        LET m == verified_out[1].payload
            returned == verified_out[1].result
            values == SignaturesValues(signatures)
        IN  /\ \A i \in 1..Len(returned) :
                  /\ \E j \in 1..Len(values) : values[j] = returned[i]
                  /\ SignatureVerify(returned[i], m).ok
                  /\ returned[i].public_key.digest_function
                         \in {ED_25519, SECP_256_K1}
                  /\ \A k \in 1..Len(returned) :
                        returned[k] = returned[i] => k = i
            /\ \A j \in 1..Len(values) :
                  SignatureVerify(values[j], m).ok <=>
                      \E i \in 1..Len(returned) : returned[i] = values[j]

\* verified returned one signature of a container that also holds one that
\* does not sign the payload and one under an unsupported digest function.
C20_Witness ==
    /\ verified_out # <<>>
    /\ Len(verified_out[1].result) = 1
    /\ \E e \in signatures :
          /\ e.key.digest_function = UnsupportedDigest
          /\ Len(e.value.signature) = 3
    /\ \E e \in signatures :
          /\ e.key.digest_function = ED_25519
          /\ Len(e.value.signature) = 3
          /\ ~SignatureVerify(e.value, verified_out[1].payload).ok

\* ------------------------------------------------- claims on the keys
\* C21: for every key pair generated for Ed25519 or Secp256k1 and every
\* payload m, Signature::new succeeds and the signature carries the public
\* key of the pair; verify(m) on it is Ok and verify(m') is Err for every
\* m' other than m.
C21_SignThenVerify ==
    (crypto.key_pair \in GeneratedKeyPairs /\ crypto.signature # <<>>) =>
        /\ crypto.signature[1].ok
        /\ crypto.signature[1].value[1].public_key = crypto.key_pair.public_key
        /\ crypto.verified # <<>> =>
               (crypto.verified[1].ok <=> crypto.verify_payload[1] = crypto.payload)

\* A Secp256k1 signature was verified against a payload other than the one
\* it signs, and the call returned Err.
C21_Witness ==
    /\ crypto.key_pair \in GeneratedKeyPairs
    /\ crypto.key_pair.public_key.digest_function = SECP_256_K1
    /\ crypto.verified # <<>>
    /\ ~crypto.verified[1].ok
    /\ crypto.verify_payload[1] # crypto.payload

\* C22: for every PublicKey p, displaying or serializing p never fails, and
\* parsing the text that p displays or serializes as yields p.
C22_PublicKeyTextRoundTrip ==
    /\ crypto.displayed # <<>> => ~crypto.displayed[1].panic
    /\ crypto.serialized # <<>> => ~crypto.serialized[1].panic
    /\ crypto.deserialized # <<>> =>
           /\ crypto.deserialized[1].ok
           /\ crypto.deserialized[1].value[1] = crypto.public_key

\* C23: the text of a public key of digest function "ed25519" or
\* "secp256k1" is the lower-case hexadecimal of code || length || payload:
\* "ed" or "e7", the payload's length as one byte, then two digits for every
\* payload byte. The 32-byte and 33-byte keys of the tests start "ed20" and
\* "e721".
C23_DisplayFormat ==
    (/\ crypto.displayed # <<>>
     /\ crypto.public_key.digest_function \in {ED_25519, SECP_256_K1}) =>
        LET text == crypto.displayed[1].text
            payload == crypto.public_key.payload
            ed == crypto.public_key.digest_function = ED_25519
            n == Len(payload)
        IN  /\ ~crypto.displayed[1].panic
            /\ Len(text) = 4 + 2 * n
            /\ SubSeq(text, 1, 2) = IF ed THEN <<"e", "d">> ELSE <<"e", "7">>
            /\ text[3] = HexDigits[(n \div 16) + 1]
            /\ text[4] = HexDigits[(n % 16) + 1]
            /\ \A i \in 1..n :
                   /\ text[3 + 2 * i] = HexDigits[(payload[i] \div 16) + 1]
                   /\ text[4 + 2 * i] = HexDigits[(payload[i] % 16) + 1]
            /\ (ed /\ payload = TestPayloadEd25519) => text = TestTextEd25519
            /\ (~ed /\ payload = TestPayloadSecp256k1) => text = TestTextSecp256k1

\* The Secp256k1 key of tests::display_public_key was displayed.
C23_Witness ==
    /\ crypto.public_key = PublicKey(SECP_256_K1, TestPayloadSecp256k1)
    /\ crypto.displayed # <<>>
    /\ crypto.displayed[1].text = TestTextSecp256k1
    /\ SubSeq(crypto.displayed[1].text, 1, 4) = <<"e", "7", "2", "1">>

\* ------------------------------------------------- claims on the queries
\* C24: GetAllDomains and GetDomain leave the WSV as it was and ask for no
\* permission; GetAllDomains returns every domain of the WSV exactly once
\* and nothing else; GetDomain(name) returns the domain of that name, or the
\* error "Failed to get a domain." when there is none.
C24_QueriesReadOnly ==
    answer.query # <<>> =>
        LET domains == answer.arg.domains
            names == DOMAIN domains
        IN  /\ wsv = answer.arg
            /\ answer.query[1] = "GetAllDomains" =>
                   /\ answer.out.ok
                   /\ LET returned == answer.out.output[1].domains IN
                      /\ Len(returned) = Cardinality(names)
                      /\ \A n \in names :
                             Cardinality({i \in 1..Len(returned) :
                                             returned[i] = domains[n]}) = 1
            /\ answer.query[1] = "GetDomain" =>
                   IF answer.query[2] \in names
                   THEN /\ answer.out.ok
                        /\ answer.out.output[1].domain = domains[answer.query[2]]
                   ELSE /\ ~answer.out.ok
                        /\ answer.out.msg = <<"Failed to get a domain.">>

\* GetAllDomains returned two domains from a WSV that grants no permission.
C24_Witness ==
    /\ answer.query = <<"GetAllDomains">>
    /\ answer.arg.permissions = {}
    /\ answer.out.ok
    /\ Len(answer.out.output[1].domains) = 2
    /\ wsv = answer.arg

\* ------------------------------------------- further claims on Kura
\* The stages of a block, in the order of its life.
Stages == <<"Pending", "Chained", "Signed", "Valid", "Committed">>

StageIndex(stage) == CHOOSE i \in 1..Len(Stages) : Stages[i] = stage

\* The stage of a block Kura holds: only commit() makes a CommittedBlock.
StageOf(b) == IF "committed" \in DOMAIN b THEN "Committed" ELSE "Valid"

C26_Backpressure ==
    /\ [][(pc = "send" /\ Len(channel) = ChannelCap) =>
              /\ pc' = "send"
              /\ result' = result
              /\ blocks' = blocks
              /\ blocks = at_call.blocks]_vars
    /\ (pc = "send") ~>
           (/\ pc = "idle"
            /\ result = Res("ok", BlockHash(block))
            /\ blocks = Append(at_call.blocks, block))

\* A store has written its file and waits at the send on a full channel.
C26_Witness ==
    /\ pc = "send"
    /\ Len(channel) = ChannelCap
    /\ WritePath(block) \in DOMAIN files
    /\ files[WritePath(block)] = Encode(block)
    /\ result.kind = "running"

\* The store `fs` has a malformed file on the way of read_all: the files of
\* the heights below some h decode, the file of h exists and does not.
Malformed(fs) ==
    \E h \in 0..Cardinality(DOMAIN fs) :
        /\ \A i \in 0..(h - 1) :
               /\ GetBlockPath(i) \in DOMAIN fs
               /\ Decodes(fs[GetBlockPath(i)])
        /\ GetBlockPath(h) \in DOMAIN fs
        /\ ~Decodes(fs[GetBlockPath(h)])

\* C27: a file that exists and does not decode is fatal. init and the
\* recovery of a failed store abort exactly when read_all meets such a file,
\* and then assign neither the tail nor the tree (no prefix is returned);
\* when they return, no such file was met and read_all ended at a missing
\* file.
C27_MalformedFileIsFatal ==
    [][/\ (pc' = "aborted" /\ pc # "aborted") =>
              /\ pc \in {"idle", "recover"}
              /\ Malformed(files)
              /\ result'.kind = IF pc = "idle" THEN "init_panic" ELSE "store_panic"
              /\ UNCHANGED <<files, blocks, merkle_tree, initialised>>
       /\ result'.kind \in {"init_ok", "err"} => ~Malformed(files')
       /\ result'.kind = "init_ok" =>
              /\ GetBlockPath(Len(blocks')) \notin DOMAIN files'
              /\ \A i \in 1..Len(blocks') :
                     files'[GetBlockPath(i - 1)] = Encode(blocks'[i])]_vars

\* init aborted on the file of height 1 while the file of height 0 decodes:
\* the tail is empty, not the prefix of one block.
C27_Witness ==
    /\ result.kind = "init_panic"
    /\ pc = "aborted"
    /\ GetBlockPath(0) \in DOMAIN files
    /\ Decodes(files[GetBlockPath(0)])
    /\ GetBlockPath(1) \in DOMAIN files
    /\ ~Decodes(files[GetBlockPath(1)])
    /\ blocks = <<>>

\* C28: store on an empty tail leaves the incoming block as it arrived,
\* height and previous hash included; the block is written to the file named
\* by that height and is the block pushed to the tail.
C28_GenesisStoredAsItArrives ==
    [][/\ \A b \in IncomingBlocks : Stamp(<<>>, b) = b
       /\ (pc = "idle" /\ pc' = "create" /\ blocks = <<>>) =>
              \E b \in IncomingBlocks :
                  /\ StoreBegin(b)
                  /\ block' = b
       /\ (at_call.blocks = <<>> /\ pc = "write_all" /\ pc' = "send") =>
              /\ block' = block
              /\ files' = WithFile(files, GetBlockPath(block.header.height),
                                   Encode(block))
       /\ (at_call.blocks = <<>> /\ pc = "push" /\ pc' = "idle") =>
              /\ blocks' = <<block>>
              /\ result'.kind = "ok"]_vars

\* A block that arrived with height 1 and a previous hash that is not the
\* zero hash was stored into an empty tail: file "1" holds it and it is the
\* tail, height and previous hash as they arrived.
C28_Witness ==
    /\ result.kind = "ok"
    /\ at_call.blocks = <<>>
    /\ blocks = <<block>>
    /\ block.header.height = 1
    /\ block.header.previous_block_hash = ForeignHash
    /\ GetBlockPath(0) \notin DOMAIN files
    /\ files[GetBlockPath(1)] = Encode(block)

\* C29: when store returns Err, the Merkle tree is the tree built over the
\* blocks read_all returns from the store at that moment, and these blocks
\* are the blocks of the tail, which is the tail of the call.
C29_RecoveryMatchesTail ==
    result.kind = "err" =>
        /\ merkle_tree = MerkleBuild(ReadAll(files).blocks)
        /\ blocks = at_call.blocks
        /\ ReadAll(files).blocks = blocks

\* ------------------------------------- further claims on instructions
\* The call is a Register of an account that returned Ok.
RegisteredAccount(c) == c.instruction.kind = "RegisterAccount" /\ c.ret.ok

\* C30: after a Register of an account that returned Ok, the returned WSV
\* is the WSV passed in except that the accounts of the destination domain
\* map the account's id to the account: the permissions, the set of domains,
\* every other domain, the rest of the destination domain and every other
\* account of it are the same; the WSV the caller passed is as it was.
C30_RegisterAccountEffect ==
    \A i \in CallIds :
        RegisteredAccount(tx_log[i]) =>
            LET before == tx_log[i].arg
                after == OutputWsv(tx_log[i].ret)
                destination_id == tx_log[i].instruction.payload[1]
                account == tx_log[i].instruction.payload[2]
            IN  /\ tx_log[i].caller = before
                /\ tx_log[i].ret.output[1].kind = "RegisterAccount"
                /\ after.permissions = before.permissions
                /\ DOMAIN after = DOMAIN before
                /\ DOMAIN after.domains = DOMAIN before.domains
                /\ \A n \in (DOMAIN before.domains) \ {destination_id} :
                       after.domains[n] = before.domains[n]
                /\ destination_id \in DOMAIN before.domains
                /\ LET was == before.domains[destination_id]
                       is == after.domains[destination_id]
                   IN  /\ DOMAIN is = DOMAIN was
                       /\ is.name = was.name
                       /\ is.asset_definitions = was.asset_definitions
                       /\ DOMAIN is.accounts
                              = (DOMAIN was.accounts) \cup {account.id}
                       /\ is.accounts[account.id] = account
                       /\ \A a \in (DOMAIN was.accounts) \ {account.id} :
                              is.accounts[a] = was.accounts[a]

\* An account was registered into a domain that held another account and an
\* asset definition, in a WSV with a second domain.
C30_Witness ==
    \E i \in CallIds :
        /\ RegisteredAccount(tx_log[i])
        /\ LET before == tx_log[i].arg
               destination_id == tx_log[i].instruction.payload[1]
           IN  /\ Cardinality(DOMAIN before.domains) = 2
               /\ DOMAIN before.domains[destination_id].accounts # {}
               /\ DOMAIN before.domains[destination_id].asset_definitions # {}
               /\ OutputWsv(tx_log[i].ret) # before

\* C31: the conversion of a Register into an Instruction keeps
\* destination_id and object, and the execute of the RegisterAccount and
\* RegisterAsset variants returns what the generic Register of the same
\* object and destination returns for the same authority and WSV (the same
\* Ok WSV or the same error), and leaves the caller's WSV as the generic one
\* does.
C31_DispatchIsFaithful ==
    /\ \A a \in NewAccounts, d \in DomainNames :
           FromRegisterAccount(Register(a, d))
               = Instr("RegisterAccount", <<d, a>>)
    /\ \A x \in NewAssetDefinitions, d \in DomainNames :
           FromRegisterAssetDefinition(Register(x, d))
               = Instr("RegisterAsset", <<d, x>>)
    /\ \A i \in CallIds :
           LET c == tx_log[i]
               generic == Register(c.instruction.payload[2],
                                   c.instruction.payload[1])
           IN  /\ c.instruction.kind = "RegisterAccount" =>
                      LET call == RegisterAccountExecute(generic, c.authority,
                                                         c.arg)
                      IN  c.ret = call.ret /\ c.caller = call.caller
               /\ c.instruction.kind = "RegisterAsset" =>
                      LET call == RegisterAssetDefinitionExecute(
                                      generic, c.authority, c.arg)
                      IN  c.ret = call.ret /\ c.caller = call.caller

\* A RegisterAccount variant whose destination is not the domain its
\* account's id names returned Ok, and a RegisterAsset variant returned Ok
\* in the same transaction.
C31_Witness ==
    /\ \E i \in CallIds :
           /\ tx_log[i].instruction.kind = "RegisterAccount"
           /\ tx_log[i].ret.ok
           /\ tx_log[i].instruction.payload[1]
                  # tx_log[i].instruction.payload[2].id.domain_name
    /\ \E i \in CallIds :
           /\ tx_log[i].instruction.kind = "RegisterAsset"
           /\ tx_log[i].ret.ok

\* C32: with a digest function that is neither "ed25519" nor "secp256k1",
\* Signature::new and Signature::verify return the error "The <digest
\* function> algorithm is not supported." and no signature, and key
\* generation from a private key of that digest function returns an error
\* and no key pair.
C32_UnsupportedDigestIsError ==
    LET digest_function == crypto.key_pair.public_key.digest_function
        not_supported ==
            <<"The ", digest_function, " algorithm is not supported.">>
    IN  digest_function \notin {"ed25519", "secp256k1"} =>
            /\ crypto.signature # <<>> =>
                   /\ ~crypto.signature[1].ok
                   /\ crypto.signature[1].value = <<>>
                   /\ crypto.signature[1].msg = not_supported
            /\ crypto.given # <<>> =>
                   /\ ~crypto.given[1].out.ok
                   /\ crypto.given[1].out.msg = not_supported
            /\ crypto.generated # <<>> =>
                   /\ crypto.key_pair.private_key.digest_function
                          = digest_function
                   /\ ~crypto.generated[1].out.ok
                   /\ crypto.generated[1].out.value = <<>>
                   /\ crypto.generated[1].out.msg[2] = digest_function

\* All three calls were made with a key pair of digest function "sha1" and
\* returned Err.
C32_Witness ==
    /\ crypto.key_pair.public_key.digest_function = UnsupportedDigest
    /\ crypto.signature # <<>> /\ ~crypto.signature[1].ok
    /\ crypto.given # <<>> /\ ~crypto.given[1].out.ok
    /\ crypto.generated # <<>> /\ ~crypto.generated[1].out.ok

\* ------------------------------------- claims on the tail and the store
\* Every call on the Kura since its construction has returned: none was
\* cancelled and none aborted (a fault counted is the I/O error of the
\* store that has just returned Err).
AllCallsReturned ==
    /\ initialised
    /\ pc = "idle"
    /\ \/ faults = 0 /\ result.kind \in {"init_ok", "ok"}
       \/ faults = 1 /\ result.kind = "err"

\* C33: between calls that have each returned, the tail is what read_all
\* returns: the file named i holds the block tail[i] for every i below the
\* length of the tail, and there is no file named by that length.
C33_TailMatchesStore ==
    AllCallsReturned =>
        /\ ReadAll(files) = [panic |-> FALSE, blocks |-> blocks]
        /\ \A i \in 1..Len(blocks) :
               /\ GetBlockPath(i - 1) \in DOMAIN files
               /\ files[GetBlockPath(i - 1)] = Encode(blocks[i])
        /\ GetBlockPath(Len(blocks)) \notin DOMAIN files

\* Every block stored into an empty tail had height 0, and no store was
\* cancelled or met an I/O error.
StoredFromGenesis == pre_chained /\ faults = 0

\* C34: when the genesis block was stored at height 0 and every store
\* succeeded, a new Kura on the same directory finds, at its construction,
\* a store from which read_all returns the tail of the Kura before it; its
\* init makes exactly that its tail (block for block the blocks stored, in
\* the order they were sent), and its next store is stamped from that tail
\* as the first Kura's would have been.
C34_DurableAcrossRestart ==
    [][StoredFromGenesis =>
          /\ (initialised /\ pc = "idle" /\ result'.kind = "new") =>
                 ReadAll(files) = [panic |-> FALSE, blocks |-> blocks]
          /\ (result.kind = "new" /\ result'.kind = "init_ok") =>
                 /\ files' = files
                 /\ blocks' = ReadAll(files).blocks
                 /\ Len(blocks') = Len(Sent')
                 /\ \A i \in 1..Len(blocks') :
                        /\ Commit(blocks'[i]) = Sent'[i]
                        /\ blocks'[i].header.height = i - 1
                        /\ BlockHash(blocks'[i]) = BlockHash(Sent'[i])
          /\ (pc = "idle" /\ pc' = "create" /\ blocks # <<>>) =>
                 /\ block'.header.height = Len(Sent)
                 /\ block'.header.previous_block_hash
                        = BlockHash(Sent[Len(Sent)])]_vars

\* A Kura was initialised on a directory that holds two blocks stored before,
\* the first at height 0, and its tail is these two blocks.
C34_Witness ==
    /\ StoredFromGenesis
    /\ result.kind = "init_ok"
    /\ Len(Sent) = 2
    /\ Len(blocks) = 2
    /\ blocks[1].header.height = 0
    /\ blocks[2].header.previous_block_hash = BlockHash(blocks[1])

\* The names of the files that successful stores have written: a store that
\* is never cancelled returns Ok once its block is sent.
StoredPaths == {GetBlockPath(Sent[i].header.height) : i \in 1..Len(Sent)}

\* C35: for a Kura whose first block into an empty store has height 0 and
\* whose stores are never cancelled, no store creates or writes a file that
\* a successful store has written: every file written is at a height where
\* no stored block is, the stored blocks have different heights, and the
\* file of each goes on holding it.
C35_AppendOnly ==
    [][pre_chained' =>
          /\ files' # files =>
                 /\ pc \in {"create", "write_all"}
                 /\ WritePath(block) \notin StoredPaths
                 /\ \A n \in (DOMAIN files) \ {WritePath(block)} :
                        n \in DOMAIN files' /\ files'[n] = files[n]
          /\ \A i, j \in 1..Len(Sent') :
                 i # j => Sent'[i].header.height # Sent'[j].header.height
          /\ \A i \in 1..Len(Sent') :
                 /\ GetBlockPath(Sent'[i].header.height) \in DOMAIN files'
                 /\ Decodes(files'[GetBlockPath(Sent'[i].header.height)])
                 /\ Commit(Decode(files'[GetBlockPath(Sent'[i].header.height)]))
                        = Sent'[i]]_vars

\* Two stores succeeded with a store that failed at File::create between
\* them: files "0" and "1" hold the two blocks.
C35_Witness ==
    /\ pre_chained
    /\ faults = 1
    /\ result.kind = "ok"
    /\ Len(Sent) = 2
    /\ StoredPaths = {GetBlockPath(0), GetBlockPath(1)}
    /\ files[GetBlockPath(0)] = Encode(blocks[1])
    /\ files[GetBlockPath(1)] = Encode(blocks[2])

\* The result of executing `first` and then, on the WSV it returned,
\* `second`; the Err of `first` when it fails.
ExecuteBoth(first, second, authority, world_state_view) ==
    LET ret == InstructionExecute(first, authority, world_state_view).ret
    IN  IF ret.ok
        THEN InstructionExecute(second, authority, OutputWsv(ret)).ret
        ELSE ret

\* The unordered pairs of registrations of accounts, and of asset
\* definitions, each into a domain of its own choice.
RegistrationPairs ==
    {{first, second} : first \in RegisterAccounts, second \in RegisterAccounts}
    \cup
    {{first, second} : first \in RegisterAssets, second \in RegisterAssets}

DifferentIds(first, second) == first.payload[2].id # second.payload[2].id

\* C36: from the WSV the applier works on and for the authority of its
\* transaction, two registrations of accounts with different ids, or of
\* asset definitions with different ids, succeed in one order exactly when
\* they succeed in the other, and then both orders return the same WSV; and
\* whenever the applier has executed two such registrations one after the
\* other, the WSV it has is the one the other order returns from the WSV
\* the first was given.
C36_RegistrationCommutes ==
    /\ \A pair \in RegistrationPairs :
           LET first == CHOOSE instruction \in pair : TRUE
               second == CHOOSE instruction \in pair :
                             pair = {first, instruction}
               authority == transaction.authority
               forth == ExecuteBoth(first, second, authority, working)
               back == ExecuteBoth(second, first, authority, working)
           IN  DifferentIds(first, second) =>
                   /\ forth.ok = back.ok
                   /\ forth.ok => OutputWsv(forth) = OutputWsv(back)
    /\ \A i \in CallIds :
           /\ i + 1 \in CallIds
           /\ IsRegister(tx_log[i])
           /\ tx_log[i + 1].instruction.kind = tx_log[i].instruction.kind
           /\ DifferentIds(tx_log[i].instruction, tx_log[i + 1].instruction)
           /\ tx_log[i + 1].ret.ok
           => LET back == ExecuteBoth(tx_log[i + 1].instruction,
                                      tx_log[i].instruction,
                                      tx_log[i].authority, tx_log[i].arg)
              IN  back.ok /\ OutputWsv(back) = OutputWsv(tx_log[i + 1].ret)

\* The applier registered two accounts with different ids into different
\* domains, one after the other.
C36_Witness ==
    \E i \in CallIds :
        /\ i + 1 \in CallIds
        /\ tx_log[i].instruction.kind = "RegisterAccount"
        /\ tx_log[i + 1].instruction.kind = "RegisterAccount"
        /\ DifferentIds(tx_log[i].instruction, tx_log[i + 1].instruction)
        /\ tx_log[i].instruction.payload[1]
               # tx_log[i + 1].instruction.payload[1]
        /\ tx_log[i + 1].ret.ok

\* The public keys of the signatures given to the container since it was
\* new or cleared.
AddedKeys == {added[i].public_key : i \in 1..Len(added)}

\* C37: after any sequence of add, append and clear, values() holds one
\* signature for every public key given since the last clear and no other,
\* in strictly ascending order of public key, so that the order in which
\* the signatures were given does not show; and contains(pk) is true exactly
\* when values() holds a signature with public key pk.
C37_ValuesSortedAndComplete ==
    LET values == SignaturesValues(signatures) IN
    /\ {values[i].public_key : i \in 1..Len(values)} = AddedKeys
    /\ Len(values) = Cardinality(AddedKeys)
    /\ \A i, j \in 1..Len(values) :
           i < j => KeyLess(values[i].public_key, values[j].public_key)
    /\ \A kp \in KeyPairs :
           SignaturesContains(signatures, kp.public_key)
               <=> \E i \in 1..Len(values) :
                       values[i].public_key = kp.public_key

\* Three signatures under three public keys were given, the first two not
\* in ascending order of their keys, the third by an add.
C37_Witness ==
    /\ Len(SignaturesValues(signatures)) = 3
    /\ last_op.op = "add"
    /\ Cardinality(last_op.before) = 2
    /\ KeyLess(added[2].public_key, added[1].public_key)

====
